---------------------------- MODULE Spec2Model ----------------------------
(***************************************************************************)
(* A model of the RFP/RFI response backend (backend/app).                  *)
(*                                                                         *)
(* The parts of the program modelled, each with a specification over the   *)
(* one set of variables:                                                   *)
(*   Spec         the generate-full endpoint, the GenerationPipeline and   *)
(*                the project / document operations that touch the same    *)
(*                rows (every status write reaches the database);          *)
(*   SpecDbFault  the same, where a status write may be lost because the   *)
(*                database is unreachable at that moment;                  *)
(*   SpecAI       the AIClient (tenacity retry around the Anthropic call); *)
(*   SpecExtract  document parsing and requirement extraction;             *)
(*   SpecReparse  the pipeline together with upload, delete and parse of   *)
(*                its documents;                                           *)
(*   SpecResponses  the responses endpoints;                               *)
(*   SpecFunctions  the functions checked on their own inputs;             *)
(*   SpecChunkLoop  chunk_document followed pass by pass through its loop. *)
(*                                                                         *)
(* One project is modelled.  Its processing_* columns are those of         *)
(* alembic/versions/002; the request handlers other than generate_full     *)
(* only flush, and the session dependency commits when the request ends    *)
(* (documents uploaded that way are what generate_full later finds), so a  *)
(* handler is one atomic database step.  generate_full and the pipeline    *)
(* suspend at every await: each action below is the code between two       *)
(* awaits of a database call (everything else in the pipeline, the         *)
(* subprocesses and the LLM call included, is blocking code).              *)
(***************************************************************************)
EXTENDS Integers, Sequences, FiniteSets, TLC

\* ------------------------------------------------------------- bounds
MaxReq == 2        \* generate-full requests issued against the project
MaxDocs == 1       \* documents ever uploaded to the project
MaxRespCalls == 2  \* calls of the responses endpoints in progress at once
MaxBlocks == 4     \* pieces of a text given to chunk_document
MaxScored == 3     \* requirements given to calculate_compliance_scores
MaxRecords == 3    \* records deduplicated in two orderings
MaxSheets == 2     \* sheets of a workbook listing, and sheet names given as hints
MaxBatches == 2    \* batches of questions of one sheet
MaxNameTokens == 3 \* tokens of a file name given to the parser factory
MaxChunks == 4     \* chunks collected by the loop of chunk_document, followed pass by pass
MaxBack == 8       \* characters the cursor of that loop is followed below offset 0
MaxItems == 2      \* items of the JSON array the LLM returns for a batch
MaxBatchReqs == 3  \* requirements given to generate_responses_batch
MaxInputDocs == 2  \* input documents of the run followed here

NULL == "NULL"

Requests == 1..MaxReq

VARIABLES
    project,     \* the Project row: processing_status, _message, _started_at
    documents,   \* the Document rows of the project
    blobs,       \* object keys stored under projects/<id>/generated/
    req,         \* per generate-full request: position and reply
    run,         \* per pipeline run (one per accepted request): GenerationPipeline
    nextDoc,     \* number of documents uploaded so far
    ai,          \* the AIClient singleton and the call in progress
    requirements,\* the Requirement rows of the project, in insertion order
    responses,   \* the committed Response rows
    calls,       \* per call of a responses endpoint: position and session
    eval         \* the function applied last, with its arguments and result

vars == <<project, documents, blobs, req, run, nextDoc, ai, requirements, responses, calls, eval>>

\* ------------------------------------------------------- small helpers
RECURSIVE SeqOfSet(_)
\* The elements of a finite set of integers in ascending order.
SeqOfSet(S) ==
    IF S = {} THEN <<>>
    ELSE LET m == CHOOSE x \in S : \A y \in S : x <= y
         IN  <<m>> \o SeqOfSet(S \ {m})


\* The elements of a list.
Range(s) == {s[i] : i \in 1..Len(s)}

\* ------------------------------------------------------- the Project row
\* models/project.py + alembic 002: the three processing_* columns, all NULL
\* for a new project.  processing_started_at is 0 for NULL, otherwise a stamp
\* naming the write that set it.
NewProject ==
    [processing_status |-> NULL, processing_message |-> NULL,
     processing_started_at |-> 0]

\* Values a client can send for processing_status (any string or null).
ClientStatusValues == {NULL, "processing", "completed", "failed"}

\* GenerationPipeline._update_status: a fresh session, load the project, set
\* status and message, stamp processing_started_at when it is still unset and
\* the status is "processing", commit.  An exception of the write is caught,
\* rolled back and logged, never re-raised: with ok = FALSE the row is as it
\* was and the caller goes on.
UpdateStatus(p, ok, status, message, stamp) ==
    IF ok
    THEN [p EXCEPT !.processing_status = status,
                   !.processing_message = message,
                   !.processing_started_at =
                       IF status = "processing" /\ @ = 0 THEN stamp ELSE @]
    ELSE p

\* ----------------------------------------------------------- documents
\* The files a client uploads, and ParserFactory.detect_file_type of a name.
FileNames == {"rfp.pdf", "questions.xlsx"}
FileTypeOf(name) == IF name = "rfp.pdf" THEN "pdf" ELSE "xlsx"

\* Row ids and object keys are uuid4 values: fresh, never reused.  An uploaded
\* document's id is its upload number; the i-th output of run r gets
\* GenId(r, i) as row id and as the uuid of its object key.
GenId(r, i) == 100 * r + i

UploadedRow(d, name) ==
    [id |-> d, filename |-> name, file_type |-> FileTypeOf(name),
     doc_category |-> NULL, status |-> "uploaded", has_text |-> FALSE]

\* The Document row GenerationPipeline._upload_outputs adds for one output.
GeneratedRow(r, i, out) ==
    [id |-> GenId(r, i), filename |-> out.filename, file_type |-> out.type,
     doc_category |-> out.category, status |-> "completed", has_text |-> FALSE]

\* The pipeline's input query: doc_category IS NULL OR != 'generated_output'.
NonGenerated(docs) == { d \in docs : d.doc_category # "generated_output" }

\* The endpoint's query: every Document of the project, whatever its category.
EndpointDocuments(docs) == docs

\* POST /projects/{id}/documents with one file of a supported type: the object
\* is stored under projects/<id>/documents/ and the row added.
UploadDocument(name) ==
    /\ nextDoc < MaxDocs
    /\ nextDoc' = nextDoc + 1
    /\ documents' = documents \cup {UploadedRow(nextDoc + 1, name)}
    /\ UNCHANGED <<project, blobs, req, run, ai, requirements, responses, calls, eval>>

\* DELETE /documents/{id}: the stored object is removed best-effort (a storage
\* error is logged), the row is deleted either way.
DeleteDocument(d, storageOk) ==
    /\ d \in documents
    /\ documents' = documents \ {d}
    /\ blobs' = IF storageOk THEN blobs \ {d.id} ELSE blobs
    /\ UNCHANGED <<project, req, run, nextDoc, ai, requirements, responses, calls, eval>>

\* PUT /projects/{id}: every field the request sets is written to the row;
\* ProjectUpdate has processing_status among its fields.  The request modelled
\* sets that one field.
UpdateProject(status) ==
    /\ project' = [project EXCEPT !.processing_status = status]
    /\ UNCHANGED <<documents, blobs, req, run, nextDoc, ai, requirements, responses, calls, eval>>

\* ------------------------------------------- POST /projects/{id}/generate-full
\* A request: where its handler stands, and the reply (0 while there is none).
NewRequest == [pc |-> "new", resp |-> 0, detail |-> ""]

ConflictDetail == "Generation is already in progress for this project"
NoDocumentsDetail == "No documents uploaded. Upload documents before generating."

\* A GenerationPipeline object and the locals of its run(): the coroutine's
\* position, the documents read, the downloaded files, schedule_json,
\* self.output_files, the xlsx files not yet answered, the temporary
\* directory, how _upload_outputs ended, and the text of the exception on its
\* way to the handler.
IdleRun ==
    [pc |-> "none", docs |-> {}, local_files |-> <<>>, schedule_json |-> "None",
     output_files |-> <<>>, xlsx_todo |-> <<>>, workspace |-> "none",
     pub |-> "none", error |-> ""]

\* The runs whose coroutine exists and has not returned.
LiveRuns == { r \in Requests : run[r].pc \notin {"none", "done"} }

\* generate_full, lines 42-52: await db.get(Project); 409 when the status read
\* is "processing".
RefusesNever(status) == FALSE

\* generate_full, line 47: the guard against a second run.
Refuses(status) == status = "processing"

GenRead(q) ==
    /\ req[q].pc = "new"
    /\ req' = [req EXCEPT ![q] =
                 IF Refuses(project.processing_status)
                 THEN [pc |-> "done", resp |-> 409, detail |-> ConflictDetail]
                 ELSE [@ EXCEPT !.pc = "read"]]
    /\ UNCHANGED <<project, documents, blobs, run, nextDoc, ai, requirements, responses, calls, eval>>

\* generate_full, lines 54-63: await db.execute(select(Document)...); 400 when
\* the project has no Document row.
GenQueryDocs(q) ==
    /\ req[q].pc = "read"
    /\ req' = [req EXCEPT ![q] =
                 IF EndpointDocuments(documents) = {}
                 THEN [pc |-> "done", resp |-> 400, detail |-> NoDocumentsDetail]
                 ELSE [@ EXCEPT !.pc = "checked"]]
    /\ UNCHANGED <<project, documents, blobs, run, nextDoc, ai, requirements, responses, calls, eval>>

\* generate_full, lines 65-79: set the three columns, await db.commit(), then
\* asyncio.create_task(_run_pipeline_background(...)) and the reply (the route
\* declares no status_code, so it is sent with 200).
GenCommit(q) ==
    /\ req[q].pc = "checked"
    /\ project' = [processing_status |-> "processing",
                   processing_message |-> "Generation queued...",
                   processing_started_at |-> q]
    /\ run' = [run EXCEPT ![q] = [IdleRun EXCEPT !.pc = "start"]]
    /\ req' = [req EXCEPT ![q] =
                 [pc |-> "done", resp |-> 200, detail |-> "Generation started"]]
    /\ UNCHANGED <<documents, blobs, nextDoc, ai, requirements, responses, calls, eval>>

\* ------------------------------------------------ GenerationPipeline.run
\* The stamp a status write of run r would put into processing_started_at.
StampOfRun(r) == MaxReq + r

\* run(), line 118.
RunInit(r, ok) ==
    /\ run[r].pc = "start"
    /\ project' = UpdateStatus(project, ok, "processing", "Initializing pipeline...",
                               StampOfRun(r))
    /\ run' = [run EXCEPT ![r] = [@ EXCEPT !.pc = "load"]]
    /\ UNCHANGED <<documents, blobs, req, nextDoc, ai, requirements, responses, calls, eval>>

\* run(), lines 121-142: read the non-generated documents; with none, write
\* "failed" and return before any workspace exists.
NoDocumentsNever(docs) == FALSE

\* run(), line 137: "if not documents".
NoDocuments(docs) == docs = {}

RunLoad(r, ok) ==
    /\ run[r].pc = "load"
    /\ LET docs == NonGenerated(documents) IN
       IF NoDocuments(docs)
       THEN /\ project' = UpdateStatus(project, ok, "failed",
                                       "No documents found in project", StampOfRun(r))
            /\ run' = [run EXCEPT ![r] = [@ EXCEPT !.pc = "done"]]
       ELSE /\ project' = project
            /\ run' = [run EXCEPT ![r] = [@ EXCEPT !.pc = "download", !.docs = docs]]
    /\ UNCHANGED <<documents, blobs, req, nextDoc, ai, requirements, responses, calls, eval>>

\* _download_documents: a document whose object cannot be fetched is logged
\* and skipped; the others become local files, in the order of the query.
DownloadDocuments(docs, fetched) ==
    LET row(i) == CHOOSE d \in docs : d.id = i
        order == SeqOfSet({ d.id : d \in docs } \cap fetched)
    IN  [ k \in 1..Len(order) |->
            [doc_id |-> order[k], filename |-> row(order[k]).filename,
             type |-> row(order[k]).file_type] ]

SelectByType(files, types) == SelectSeq(files, LAMBDA f : f.type \in types)

HasPdfDocx(rec) == SelectByType(rec.local_files, {"pdf", "docx"}) # <<>>

\* What _run_schedule_extraction can return: None (script or key missing,
\* non-zero exit, timeout, any exception), an object whose schedule_events
\* list is empty, an object with events.
ScheduleResults == {"None", "NoEvents", "Events"}

\* Python truth of schedule_json in "if schedule_json:" (line 169): None is
\* false, a dict with keys is true.
Truthy(schedule_json) == schedule_json \in {"NoEvents", "Events"}

\* The stage whose status write is the next await, from each point of run().
AfterExcel(rec) == IF HasPdfDocx(rec) \/ Truthy(rec.schedule_json) THEN "pdf" ELSE "upload"
AfterWinPlan(rec) == IF rec.xlsx_todo # <<>> THEN "excel" ELSE AfterExcel(rec)
AfterSchedule(rec) == IF Truthy(rec.schedule_json) THEN "winplan" ELSE AfterWinPlan(rec)
AfterDownload(rec) == IF HasPdfDocx(rec) THEN "schedule" ELSE AfterSchedule(rec)

OutputFile(name, type) ==
    [filename |-> name, type |-> type, category |-> "generated_output"]

\* Leaving the "with tempfile.TemporaryDirectory()" block of run(): the
\* directory is removed; the locals that named its files are not read again.
LeaveWorkspace(rec) ==
    [rec EXCEPT !.workspace = "removed", !.local_files = <<>>,
                !.xlsx_todo = <<>>, !.schedule_json = "None"]

\* An exception raised inside the "with" block: on to the handler, line 201.
Raise(rec, text) == [LeaveWorkspace(rec) EXCEPT !.pc = "finish", !.error = text]

\* run(), lines 145-160: the temporary directory is created, the status
\* written, the documents downloaded and sorted by type.
RunDownload(r, fetched, ok) ==
    /\ run[r].pc = "download"
    /\ project' = UpdateStatus(project, ok, "processing", "Downloading documents...",
                               StampOfRun(r))
    /\ LET files == DownloadDocuments(run[r].docs, fetched)
           rec == [run[r] EXCEPT !.docs = {},
                                 !.local_files = files,
                                 !.xlsx_todo = SelectByType(files, {"xlsx"}),
                                 !.workspace = "live"]
       IN  run' = [run EXCEPT ![r] =
                     [rec EXCEPT !.pc = IF files = <<>> THEN "nofiles"
                                        ELSE AfterDownload(rec)]]
    /\ UNCHANGED <<documents, blobs, req, nextDoc, ai, requirements, responses, calls, eval>>

\* run(), lines 154-156: with no local file, "failed" and return (the
\* directory is removed on the way out).
RunNoFiles(r, ok) ==
    /\ run[r].pc = "nofiles"
    /\ project' = UpdateStatus(project, ok, "failed",
                               "No documents could be downloaded", StampOfRun(r))
    /\ run' = [run EXCEPT ![r] = [LeaveWorkspace(@) EXCEPT !.pc = "done"]]
    /\ UNCHANGED <<documents, blobs, req, nextDoc, ai, requirements, responses, calls, eval>>

\* run(), lines 164-166: the schedule of the first pdf/docx.
RunSchedule(r, result, ok) ==
    /\ run[r].pc = "schedule"
    /\ project' = UpdateStatus(project, ok, "processing",
                               "Extracting schedule from documents...", StampOfRun(r))
    /\ LET rec == [run[r] EXCEPT !.schedule_json = result]
       IN  run' = [run EXCEPT ![r] = [rec EXCEPT !.pc = AfterSchedule(rec)]]
    /\ UNCHANGED <<documents, blobs, req, nextDoc, ai, requirements, responses, calls, eval>>

\* run(), lines 169-172 and _run_win_plan_generation: the output is
\* registered when the script exits 0 and the file exists; every failure of
\* the subprocess is logged.
RunWinPlan(r, scriptOk, ok) ==
    /\ run[r].pc = "winplan"
    /\ project' = UpdateStatus(project, ok, "processing",
                               "Generating Win Plan document...", StampOfRun(r))
    /\ LET rec == [run[r] EXCEPT !.output_files =
                      IF scriptOk THEN Append(@, OutputFile("Win_Plan.docx", "docx"))
                      ELSE @]
       IN  run' = [run EXCEPT ![r] = [rec EXCEPT !.pc = AfterWinPlan(rec)]]
    /\ UNCHANGED <<documents, blobs, req, nextDoc, ai, requirements, responses, calls, eval>>

\* ------------------------------------------------------ Excel answering
ANSWER_BATCH_SIZE == 20

\* Questions the parser script finds in the workbook (all in one sheet):
\* none, one batch, one more than a batch.
QuestionCounts == {0, 1, ANSWER_BATCH_SIZE + 1}

\* range(0, len(questions), ANSWER_BATCH_SIZE): the number of batches.
Batches(n) == (n + ANSWER_BATCH_SIZE - 1) \div ANSWER_BATCH_SIZE

\* What ai_client.generate does for one batch: raise, or return text that is
\* not JSON, a JSON object, or a JSON array of the given items ("answer" is
\* an object, "scalar" any value that is not one, e.g. [1, 2]).
LLMReplies ==
    { [kind |-> "exception", items |-> <<>>],
      [kind |-> "invalid_json", items |-> <<>>],
      [kind |-> "json_object", items |-> <<>>] }
    \cup { [kind |-> "json_array", items |-> it] :
             it \in { <<>>, <<"answer">>, <<"scalar">>, <<"answer", "scalar">> } }

\* _generate_answers_batch: the items of a JSON array are taken as they are;
\* every other outcome is logged and gives no answer.
GenerateAnswersBatch(reply) ==
    IF reply.kind = "json_array" THEN reply.items ELSE <<>>

RECURSIVE AllAnswers(_)
\* all_answers after the batch loop of _run_excel_answering.
AllAnswers(replies) ==
    IF replies = <<>> THEN <<>>
    ELSE GenerateAnswersBatch(Head(replies)) \o AllAnswers(Tail(replies))

\* _run_excel_answering for one workbook.  listed: sheet discovery and
\* question extraction succeeded; n: the questions found; replies: one LLM
\* reply per batch; writeOk: the write-back subprocess exited 0 and left the
\* file.  "skipped": returned without output; "raised": ans.get on an item
\* that is not an object (line 497, outside every try); "written": the output
\* was registered.
ExcelAnswering(listed, n, replies, writeOk) ==
    LET all_answers == AllAnswers(replies) IN
    IF ~listed \/ n = 0 THEN "skipped"
    ELSE IF all_answers = <<>> THEN "skipped"
    ELSE IF \E i \in 1..Len(all_answers) : all_answers[i] # "answer" THEN "raised"
    ELSE IF writeOk THEN "written"
    ELSE "skipped"

AttributeErrorText == "'int' object has no attribute 'get'"

\* run(), lines 175-183: the status write and _run_excel_answering for the
\* next workbook.
RunExcel(r, listed, n, replies, writeOk, ok) ==
    /\ run[r].pc = "excel"
    /\ Len(replies) = Batches(n)
    /\ project' = UpdateStatus(project, ok, "processing",
                     "Answering questions in " \o Head(run[r].xlsx_todo).filename \o "...",
                     StampOfRun(r))
    /\ LET file == Head(run[r].xlsx_todo)
           outcome == ExcelAnswering(listed, n, replies, writeOk)
           rec == [run[r] EXCEPT
                     !.xlsx_todo = Tail(@),
                     !.output_files =
                         IF outcome = "written"
                         THEN Append(@, OutputFile("Answered_" \o file.filename, "xlsx"))
                         ELSE @]
       IN  run' = [run EXCEPT ![r] =
                     IF outcome = "raised" THEN Raise(rec, AttributeErrorText)
                     ELSE [rec EXCEPT !.pc = AfterWinPlan(rec)]]
    /\ UNCHANGED <<documents, blobs, req, nextDoc, ai, requirements, responses, calls, eval>>

\* run(), lines 186-189 and _run_pdf_generation.
RunPdf(r, scriptOk, ok) ==
    /\ run[r].pc = "pdf"
    /\ project' = UpdateStatus(project, ok, "processing",
                               "Generating RFI Response PDF...", StampOfRun(r))
    /\ run' = [run EXCEPT ![r] =
                 [@ EXCEPT !.pc = "upload",
                           !.output_files =
                               IF scriptOk
                               THEN Append(@, OutputFile("RFI_Response.pdf", "pdf"))
                               ELSE @]]
    /\ UNCHANGED <<documents, blobs, req, nextDoc, ai, requirements, responses, calls, eval>>

\* ------------------------------------------------------------ publication
Min(a, b) == IF a < b THEN a ELSE b

\* _upload_outputs with failAt = 0: every upload and the commit succeed;
\* failAt = k in 1..n: storage.upload_file of the k-th output raises;
\* failAt = n + 1: db.commit raises.
\* The objects stored by then (an upload is not undone by the rollback).
UploadedKeys(r, n, failAt) ==
    { GenId(r, i) : i \in 1..(IF failAt = 0 THEN n ELSE Min(failAt - 1, n)) }

PublishedRowsNoRollback(r, outputs, failAt) ==
    { GeneratedRow(r, i, outputs[i]) :
        i \in 1..(IF failAt = 0 THEN Len(outputs) ELSE Min(failAt - 1, Len(outputs))) }

\* The Document rows the session's commit persists.
PublishedRows(r, outputs, failAt) ==
    IF failAt = 0
    THEN { GeneratedRow(r, i, outputs[i]) : i \in 1..Len(outputs) }
    ELSE {}

\* run(), line 192.
RunUploadStatus(r, ok) ==
    /\ run[r].pc = "upload"
    /\ project' = UpdateStatus(project, ok, "processing",
                               "Uploading generated documents...", StampOfRun(r))
    /\ run' = [run EXCEPT ![r] = [@ EXCEPT !.pc = "uploading"]]
    /\ UNCHANGED <<documents, blobs, req, nextDoc, ai, requirements, responses, calls, eval>>

\* run(), line 193: _upload_outputs up to its commit or rollback, and the
\* end of the "with" block.
RunUpload(r, failAt) ==
    /\ run[r].pc = "uploading"
    /\ failAt \in 0..(Len(run[r].output_files) + 1)
    /\ blobs' = blobs \cup UploadedKeys(r, Len(run[r].output_files), failAt)
    /\ documents' = documents \cup PublishedRows(r, run[r].output_files, failAt)
    /\ run' = [run EXCEPT ![r] =
                 IF failAt = 0
                 THEN [LeaveWorkspace(@) EXCEPT !.pc = "finish", !.pub = "ok"]
                 ELSE IF failAt > Len(@.output_files)
                 THEN [Raise(@, "commit failed") EXCEPT !.pub = "commit_failed"]
                 ELSE [Raise(@, "File upload failed") EXCEPT !.pub = "upload_failed"]]
    /\ UNCHANGED <<project, req, nextDoc, ai, requirements, responses, calls, eval>>

\* run(), lines 195-198 and 201-203: the last status write of the run.  The
\* exception texts of the runs are all shorter than 500 characters, so
\* str(e)[:500] is the whole text; FailedMessage below takes longer ones.
FinalStatus(rec) == IF rec.error = "" THEN "completed" ELSE "failed"

FinalMessage(rec) ==
    IF rec.error = ""
    THEN "Generation complete! " \o ToString(Len(rec.output_files))
             \o " document(s) generated."
    ELSE "Pipeline failed: " \o rec.error

RunFinish(r, ok) ==
    /\ run[r].pc = "finish"
    /\ project' = UpdateStatus(project, ok, FinalStatus(run[r]), FinalMessage(run[r]),
                               StampOfRun(r))
    /\ run' = [run EXCEPT ![r] =
                 [@ EXCEPT !.pc = "done", !.output_files = <<>>, !.error = ""]]
    /\ UNCHANGED <<documents, blobs, req, nextDoc, ai, requirements, responses, calls, eval>>

\* ----------------------------------------------------------------- AIClient
MaxCalls == 3            \* calls made to the client
StopAfterAttempt == 3    \* stop=stop_after_attempt(3)

Methods == {"generate", "generate_structured"}

\* What self.client.messages.create does: a response whose content has a
\* tool_use block, a response without one, or an exception of the SDK
\* (rate limit, connection, another status error) or of another kind.
APIOutcomes ==
    {"response", "response_no_tool_use", "RateLimitError", "APIConnectionError",
     "InternalServerError", "TypeError"}

\* The classes an exception of the given class is an instance of.
Bases(cls) ==
    CASE cls = "RateLimitError" ->
             {"RateLimitError", "APIStatusError", "APIError", "Exception"}
      [] cls = "InternalServerError" ->
             {"InternalServerError", "APIStatusError", "APIError", "Exception"}
      [] cls = "APIConnectionError" -> {"APIConnectionError", "APIError", "Exception"}
      [] cls = "AIClientError" -> {"AIClientError", "RFPAutomationError", "Exception"}
      [] OTHER -> {cls, "Exception"}

IsInstance(cls, types) == Bases(cls) \cap types # {}

\* retry=retry_if_exception_type((RateLimitError, APIConnectionError))
RetryTypes == {"RateLimitError", "APIConnectionError"}

\* The input/output token counts a response reports.
Usages == { <<1, 1>>, <<2, 1>> }

\* The AIClient singleton (its two counters) and the call in progress:
\* method, attempts made, the outcome of the last API call, and the class of
\* the exception the caller sees.
AIIdle ==
    [pc |-> "idle", method |-> "", attempts |-> 0, api |-> "", raised |-> "",
     total_input_tokens |-> 0, total_output_tokens |-> 0, calls |-> 0]

\* A body without "except anthropic.APIError": the SDK error reaches tenacity.
BodyUnconverted(method, outcome) ==
    IF outcome = "response" THEN "return"
    ELSE IF outcome = "response_no_tool_use"
         THEN IF method = "generate_structured" THEN "AIClientError" ELSE "return"
    ELSE outcome

\* One execution of the decorated function's body: what it returns or raises.
\* A response is returned (generate_structured without a tool_use block
\* raises AIClientError); "except anthropic.APIError" turns every SDK error
\* into AIClientError; any other exception passes through.
Body(method, outcome) ==
    IF outcome = "response" THEN "return"
    ELSE IF outcome = "response_no_tool_use"
         THEN IF method = "generate_structured" THEN "AIClientError" ELSE "return"
    ELSE IF IsInstance(outcome, {"APIError"}) THEN "AIClientError"
    ELSE outcome

\* _track_usage
TrackUsage(a, usage) ==
    [a EXCEPT !.total_input_tokens = @ + usage[1],
              !.total_output_tokens = @ + usage[2]]

\* A caller invokes generate or generate_structured.
AICall(method) ==
    /\ ai.pc = "idle"
    /\ ai.calls < MaxCalls
    /\ ai' = [ai EXCEPT !.pc = "calling", !.method = method, !.attempts = 0,
                        !.api = "", !.raised = "", !.calls = @ + 1]
    /\ UNCHANGED <<project, documents, blobs, req, run, nextDoc, requirements, responses, calls, eval>>

\* One attempt under tenacity's retry loop: the body runs; a return ends the
\* call; an exception that is an instance of a retry type is retried until
\* stop_after_attempt, then RetryError is raised (reraise is not set); any
\* other exception is raised at once.
AIAttempt(outcome, usage) ==
    /\ ai.pc = "calling"
    /\ LET result == Body(ai.method, outcome)
           a1 == [ai EXCEPT !.attempts = @ + 1, !.api = outcome]
           a2 == IF outcome \in {"response", "response_no_tool_use"}
                 THEN TrackUsage(a1, usage) ELSE a1
       IN  ai' = IF result = "return" THEN [a2 EXCEPT !.pc = "returned"]
                 ELSE IF ~IsInstance(result, RetryTypes)
                      THEN [a2 EXCEPT !.pc = "raised", !.raised = result]
                 ELSE IF a2.attempts >= StopAfterAttempt
                      THEN [a2 EXCEPT !.pc = "raised", !.raised = "RetryError"]
                 ELSE a2
    /\ UNCHANGED <<project, documents, blobs, req, run, nextDoc, requirements, responses, calls, eval>>

\* The caller takes the result or handles the exception.
AIDone ==
    /\ ai.pc \in {"returned", "raised"}
    /\ ai' = [ai EXCEPT !.pc = "idle", !.method = "", !.attempts = 0,
                        !.api = "", !.raised = ""]
    /\ UNCHANGED <<project, documents, blobs, req, run, nextDoc, requirements, responses, calls, eval>>

\* ------------------------------------------------- requirement extraction
MaxRequirements == 4     \* Requirement rows stored for the project

\* The requirement types the LLM uses in the model (the tool schema allows
\* functional, non_functional, commercial, legal, technical).
ReqTypes == {"functional", "technical"}

\* prefixes.get(req_type, "REQ")
Prefix(type) ==
    CASE type = "functional" -> "FR"
      [] type = "non_functional" -> "NFR"
      [] type = "commercial" -> "CR"
      [] type = "legal" -> "LR"
      [] type = "technical" -> "TR"
      [] OTHER -> "REQ"

\* f"{prefix}-{n:03d}"
ReqNumber(prefix, n) ==
    prefix \o "-" \o
        (IF n < 10 THEN "00" ELSE IF n < 100 THEN "0" ELSE "") \o ToString(n)

\* What generate_structured gives for one chunk: an exception, or the types
\* of the requirements found.
ChunkReplies ==
    { [ok |-> FALSE, reqs |-> <<>>],
      [ok |-> TRUE, reqs |-> <<"functional">>],
      [ok |-> TRUE, reqs |-> <<"functional", "technical">>] }

\* The inputs of one extract_requirements call: the reply per chunk (one or
\* two chunks), whether embed_texts works, and the pairs of raw requirements
\* whose cosine similarity exceeds 0.95 (at most one pair).
PairsOf(n) == { <<i, j>> \in (1..n) \X (1..n) : i < j }

RECURSIVE AllRequirements(_)
\* all_requirements after the chunk loop: a failed chunk contributes nothing.
AllRequirements(replies) ==
    IF replies = <<>> THEN <<>>
    ELSE (IF Head(replies).ok THEN Head(replies).reqs ELSE <<>>)
             \o AllRequirements(Tail(replies))

ExtractionInputs ==
    { [replies |-> rs, embedOk |-> e, similar |-> sim] :
        rs \in UNION { [1..c -> ChunkReplies] : c \in 1..2 },
        e \in BOOLEAN,
        sim \in { {} } \cup { {pr} : pr \in PairsOf(4) } }

RECURSIVE KeptUpTo(_, _)
\* The indices among 1..k whose keep flag is still set when the loops of
\* _deduplicate_requirements end: j is dropped when a kept i < j is similar.
KeptUpTo(k, similar) ==
    IF k = 0 THEN {}
    ELSE LET before == KeptUpTo(k - 1, similar)
         IN  IF \E i \in before : <<i, k>> \in similar THEN before
             ELSE before \cup {k}

\* _deduplicate_requirements
DeduplicateRequirements(reqs, embedOk, similar) ==
    IF Len(reqs) <= 1 \/ ~embedOk THEN reqs
    ELSE LET keep == SeqOfSet(KeptUpTo(Len(reqs), similar))
         IN  [k \in 1..Len(keep) |-> reqs[keep[k]]]

\* extract_requirements: the chunk loop, the deduplication, then the
\* numbering with counters that start at 0 in every call.
ExtractRequirements(in) ==
    LET all == AllRequirements(in.replies)
        dedup == DeduplicateRequirements(all, in.embedOk, in.similar)
    IN  IF all = <<>> THEN <<>>
        ELSE [k \in 1..Len(dedup) |->
                [type |-> dedup[k],
                 req_number |->
                    ReqNumber(Prefix(dedup[k]),
                              Cardinality({i \in 1..k : dedup[i] = dedup[k]}))]]

\* POST /documents/{id}/parse: the document is downloaded, parsed and
\* classified; any failure leaves it "failed".
ParseDocument(d, outcome) ==
    /\ d \in documents
    /\ documents' = (documents \ {d}) \cup
          { IF outcome = "failed" THEN [d EXCEPT !.status = "failed"]
            ELSE [d EXCEPT !.status = "parsed", !.doc_category = "rfp_document",
                           !.has_text = (outcome = "text")] }
    /\ UNCHANGED <<project, blobs, req, run, nextDoc, ai, requirements, responses, calls, eval>>

RECURSIVE ExtractedRows(_, _)
\* The Requirement rows trigger_extraction adds, document by document.
ExtractedRows(ids, inputs) ==
    IF ids = <<>> THEN <<>>
    ELSE LET raw == ExtractRequirements(inputs[Head(ids)])
         IN  [k \in 1..Len(raw) |->
                 [document_id |-> Head(ids), type |-> raw[k].type,
                  req_number |-> raw[k].req_number]]
             \o ExtractedRows(Tail(ids), inputs)

\* POST /projects/{id}/extract with at least one parsed document (without
\* one the reply is 400 and nothing changes): every parsed document with
\* text is extracted and becomes "extracted".
TriggerExtraction(inputs) ==
    LET parsed == { d \in documents : d.status = "parsed" }
        withText == { d \in parsed : d.has_text }
    IN  /\ parsed # {}
        /\ DOMAIN inputs = { d.id : d \in withText }
        /\ requirements' =
               requirements \o ExtractedRows(SeqOfSet(DOMAIN inputs), inputs)
        /\ Len(requirements') <= MaxRequirements
        /\ documents' = (documents \ withText)
                           \cup { [d EXCEPT !.status = "extracted"] : d \in withText }
        /\ UNCHANGED <<project, blobs, req, run, nextDoc, ai, responses, calls, eval>>

\* ------------------------------------------------- responses endpoints
\* api/responses.py.  Every call runs in its own database session: what it
\* loaded is its own copy of the row, and the session is committed when the
\* handler returns.  A flush and the commit that follows it are one step here:
\* between them the handler does not run, and the database makes another
\* session that touches the same row or the same unique key wait for the commit.

Calls == 1..MaxRespCalls

UserIds == {"u1"}

IdleCall ==
    [pc |-> "none", pending |-> {}, loaded |-> NULL,
     request |-> NULL, reply |-> 0, error |-> ""]

\* The call has returned: only its reply is kept, with the exception behind
\* an error reply.
Returned(code, error) == [IdleCall EXCEPT !.reply = code, !.error = error]

\* The two requirements of the project the responses are generated for, as
\* trigger_extraction stores them for one parsed document whose single chunk
\* gave two requirements.
StoredRequirements ==
    ExtractedRows(<<1>>,
        [d \in {1} |->
            [replies |-> <<[ok |-> TRUE, reqs |-> <<"functional", "technical">>]>>,
             embedOk |-> TRUE, similar |-> {}]])

RequirementIds == 1..Len(requirements)

\* select(Response.requirement_id): the requirements that have a Response.
ExistingIds(rows) == {row.requirement_id : row \in rows}

\* pending_reqs: the requirements that need a response and have none.
PendingReqs(rows) == {k \in RequirementIds : k \notin ExistingIds(rows)}

\* generate_responses_batch: one response per requirement; a requirement whose
\* generation failed gets the fallback response with status custom_dev.
GenerationOutcomes == {"generated", "failed"}

GeneratedStatus(outcome) ==
    IF outcome = "generated" THEN "fully_compliant" ELSE "custom_dev"

\* Response(...): the row added for one pending requirement.
NewResponse(id, k, status) ==
    [id |-> id, requirement_id |-> k, compliance_status |-> status,
     is_ai_generated |-> TRUE, is_reviewed |-> FALSE,
     reviewed_by |-> NULL, reviewed_at |-> NULL]

\* A table without the unique constraint on requirement_id.
UniqueViolationNever(rows, pending) == FALSE

\* unique=True on responses.requirement_id: the INSERT of a row for a
\* requirement that already has a committed row fails.
UniqueViolation(rows, pending) == pending \cap ExistingIds(rows) # {}

\* trigger_response_generation up to the call of generate_responses_batch.
GenerateRead(c) ==
    /\ calls[c].pc = "none"
    /\ requirements # <<>>
    /\ LET pending == PendingReqs(responses)
       IN  calls' = [calls EXCEPT ![c] =
               IF pending = {} THEN Returned(200, "")
               ELSE [IdleCall EXCEPT !.pc = "generating", !.pending = pending]]
    /\ UNCHANGED <<project, documents, blobs, req, run, nextDoc, ai, requirements, responses, eval>>

\* generate_responses_batch, the rows added and the flush: either every row of
\* the call is stored, or the IntegrityError leaves none of them.
GenerateSave(c, outcomes) ==
    /\ calls[c].pc = "generating"
    /\ LET pending == calls[c].pending
           order   == SeqOfSet(pending)
           first   == Cardinality(responses)
           rows    == {NewResponse(first + i, order[i], GeneratedStatus(outcomes[order[i]])) :
                          i \in 1..Len(order)}
       IN  IF UniqueViolation(responses, pending)
           THEN /\ calls' = [calls EXCEPT ![c] = Returned(500, "IntegrityError")]
                /\ UNCHANGED responses
           ELSE /\ calls' = [calls EXCEPT ![c] = Returned(200, "")]
                /\ responses' = responses \cup rows
    /\ UNCHANGED <<project, documents, blobs, req, run, nextDoc, ai, requirements, eval>>

\* ResponseUpdate as the endpoints of this model send it: is_reviewed given or
\* left out (then it reads None), the other fields left out.
UpdateRequests == [unset : BOOLEAN, is_reviewed : BOOLEAN]

ResponseIds(rows) == {row.id : row \in rows}

RowOf(rows, id) == CHOOSE row \in rows : row.id = id

\* The UPDATE a flush sends: only the attributes whose value differs from the
\* value the session loaded are written, the others keep what the table has.
FlushRow(rows, loaded, new) ==
    {IF row.id = loaded.id
     THEN [f \in DOMAIN row |-> IF new[f] # loaded[f] THEN new[f] ELSE row[f]]
     ELSE row : row \in rows}

\* update_response, the select.
UpdateLoad(c, id, request) ==
    /\ calls[c].pc = "none"
    /\ calls' = [calls EXCEPT ![c] =
           IF id \in ResponseIds(responses)
           THEN [IdleCall EXCEPT !.pc = "updating",
                                 !.loaded = RowOf(responses, id),
                                 !.request = request]
           ELSE Returned(404, "Response not found")]
    /\ UNCHANGED <<project, documents, blobs, req, run, nextDoc, ai, requirements, responses, eval>>

\* update_response, the assignments on the loaded row.
UpdatedRow(row, request, user) ==
    LET set == IF request.unset THEN row
               ELSE [row EXCEPT !.is_reviewed = request.is_reviewed]
    IN  IF ~request.unset /\ request.is_reviewed
        THEN [set EXCEPT !.reviewed_by = user, !.reviewed_at = "now",
                         !.is_ai_generated = FALSE]
        ELSE set

UpdateFlush(c, user) ==
    /\ calls[c].pc = "updating"
    /\ responses' = FlushRow(responses, calls[c].loaded,
                             UpdatedRow(calls[c].loaded, calls[c].request, user))
    /\ calls' = [calls EXCEPT ![c] = Returned(200, "")]
    /\ UNCHANGED <<project, documents, blobs, req, run, nextDoc, ai, requirements, eval>>

\* regenerate_response, the two selects.
RegenerateLoad(c, id) ==
    /\ calls[c].pc = "none"
    /\ calls' = [calls EXCEPT ![c] =
           IF id \in ResponseIds(responses)
           THEN [IdleCall EXCEPT !.pc = "regenerating",
                                 !.loaded = RowOf(responses, id)]
           ELSE Returned(404, "Response not found")]
    /\ UNCHANGED <<project, documents, blobs, req, run, nextDoc, ai, requirements, responses, eval>>

\* regenerate_response, the assignments on the loaded row.
RegeneratedRow(row) ==
    [row EXCEPT !.compliance_status = GeneratedStatus("generated"),
                !.is_ai_generated = TRUE, !.is_reviewed = FALSE]

\* generate_response raises ResponseGenerationError when the LLM call fails:
\* nothing is assigned and the call ends with a server error.
RegenerateFlush(c, outcome) ==
    /\ calls[c].pc = "regenerating"
    /\ IF outcome = "generated"
       THEN /\ responses' = FlushRow(responses, calls[c].loaded,
                                     RegeneratedRow(calls[c].loaded))
            /\ calls' = [calls EXCEPT ![c] = Returned(200, "")]
       ELSE /\ calls' = [calls EXCEPT ![c] = Returned(500, "ResponseGenerationError")]
            /\ UNCHANGED responses
    /\ UNCHANGED <<project, documents, blobs, req, run, nextDoc, ai, requirements, eval>>

\* The functions checked on their own leave this record of one application.
NoEval == [op |-> "none", args |-> <<>>, result |-> <<>>]

\* --------------------------------------------------------------- chunking
\* extraction/chunking.py.  A text is a sequence of characters; the texts
\* checked are made of lower-case letters, blanks and newlines, in which the
\* paragraph break is the only semantic boundary that can occur.

CharsPerToken == 4

\* estimate_tokens
estimate_tokens(text) == Len(text) \div CharsPerToken

IsSpace(ch) == ch \in {" ", "\n"}

SetMin(S) == CHOOSE x \in S : \A y \in S : x <= y

SetMax(S) == CHOOSE x \in S : \A y \in S : x >= y

\* str.strip
Strip(s) ==
    LET solid == {i \in 1..Len(s) : ~IsSpace(s[i])}
    IN  IF solid = {} THEN <<>> ELSE SubSeq(s, SetMin(solid), SetMax(solid))

\* boundary_pattern.finditer: r"\n\s*\n" matches once in every run of
\* whitespace that holds two newlines or more, from the first newline of the
\* run; the result is the offset of each match.
MatchStarts(text) ==
    {p - 1 : p \in {i \in 1..Len(text) :
        /\ text[i] = "\n"
        /\ \A j \in 1..(i - 1) : (\A k \in j..(i - 1) : IsSpace(text[k])) => text[j] # "\n"
        /\ \E j \in (i + 1)..Len(text) :
               text[j] = "\n" /\ \A k \in i..j : IsSpace(text[k])}}

Boundaries(text) == {0} \cup MatchStarts(text) \cup {Len(text)}

\* The end of the chunk that starts at chunk_start.
ChunkEnd(text, chunk_start, max_chars) ==
    LET whole == Min(chunk_start + max_chars, Len(text))
        best_boundary ==
            SetMax({chunk_start} \cup
                   {b \in Boundaries(text) : chunk_start < b /\ b <= whole})
    IN  IF whole < Len(text) /\ best_boundary > chunk_start + (max_chars \div 2)
        THEN best_boundary
        ELSE whole

\* text[a:b] as Python slices it: a negative index counts from the end, and
\* both indices are clipped to the text.
SliceIndex(text, i) ==
    IF i < 0 THEN (IF i + Len(text) < 0 THEN 0 ELSE i + Len(text))
    ELSE Min(i, Len(text))

Slice(text, a, b) == SubSeq(text, SliceIndex(text, a) + 1, SliceIndex(text, b))

\* One pass through the body of the while loop, lines 49 to 73: the chunks
\* after it, the next chunk_start, and whether the loop is left.
ChunkIteration(text, chunk_start, chunks, max_chars, overlap_chars) ==
    LET chunk_end  == ChunkEnd(text, chunk_start, max_chars)
        chunk_text == Strip(Slice(text, chunk_start, chunk_end))
        kept == IF chunk_text # <<>>
                THEN Append(chunks, [text |-> chunk_text, start_char |-> chunk_start,
                                     end_char |-> chunk_end, chunk_index |-> Len(chunks)])
                ELSE chunks
        next == chunk_end - overlap_chars
    IN  [chunks |-> kept, chunk_start |-> next,
         left |-> next >= Len(text) \/ chunk_end >= Len(text)]

\* The while loop of chunk_document, run to its end.
RECURSIVE ChunkLoop(_, _, _, _, _)
ChunkLoop(text, chunk_start, chunks, max_chars, overlap_chars) ==
    LET pass == ChunkIteration(text, chunk_start, chunks, max_chars, overlap_chars)
    IN  IF pass.left \/ ~(pass.chunk_start < Len(text))
        THEN pass.chunks
        ELSE ChunkLoop(text, pass.chunk_start, pass.chunks, max_chars, overlap_chars)

\* chunk_document with the single chunk of a short text trimmed as the chunks
\* of the loop are.
chunk_document_trimmed(text, max_tokens, overlap_tokens) ==
    IF estimate_tokens(text) <= max_tokens
    THEN <<[text |-> Strip(text), start_char |-> 0, end_char |-> Len(text), chunk_index |-> 0]>>
    ELSE ChunkLoop(text, 0, <<>>, max_tokens * CharsPerToken, overlap_tokens * CharsPerToken)

\* chunk_document, lines 23 to 76, on the effective max_tokens and
\* overlap_tokens.
chunk_document(text, max_tokens, overlap_tokens) ==
    IF estimate_tokens(text) <= max_tokens
    THEN <<[text |-> text, start_char |-> 0, end_char |-> Len(text), chunk_index |-> 0]>>
    ELSE ChunkLoop(text, 0, <<>>, max_tokens * CharsPerToken, overlap_tokens * CharsPerToken)

\* The texts: up to MaxBlocks pieces, of four characters or of one, so that
\* the lengths are not all multiples of CharsPerToken.
TextBlocks ==
    {<<"x", "x", "x", "x">>, <<" ", " ", " ", " ">>,
     <<"x", "\n", "\n", "x">>, <<"\n", " ", "\n", "x">>, <<"x">>}

RECURSIVE Flatten(_)
Flatten(seqs) == IF seqs = <<>> THEN <<>> ELSE Head(seqs) \o Flatten(Tail(seqs))

Texts == {Flatten(bs) : bs \in UNION {[1..n -> TextBlocks] : n \in 0..MaxBlocks}}

\* max_tokens and overlap_tokens, scaled down from the settings 4000 and 200.
ChunkSettings == {<<2, 1>>, <<3, 1>>}

ChunkInputs == {[text |-> t, max_tokens |-> s[1], overlap_tokens |-> s[2]] :
                   t \in Texts, s \in ChunkSettings}

\* One application of a function: the arguments are chosen first.
Input(fn, args) == [op |-> "input", fn |-> fn, args |-> args, result |-> <<>>]

Applied(result) == [eval EXCEPT !.op = "applied", !.result = result]

Pending(fn) == eval.op = "input" /\ eval.fn = fn

ApplyChunkDocument ==
    /\ Pending("chunk_document")
    /\ eval' = Applied(chunk_document(eval.args.text, eval.args.max_tokens,
                                      eval.args.overlap_tokens))
    /\ UNCHANGED <<project, documents, blobs, req, run, nextDoc, ai, requirements, responses, calls>>

\* chunk_document followed pass by pass.  get_settings(), scaled down from
\* max_chunk_tokens = 4000 and chunk_overlap_tokens = 200.
Settings == [max_chunk_tokens |-> 3, chunk_overlap_tokens |-> 1]

\* value or default: None and 0 both give the default.
OrDefault(value, default) == IF value = 0 THEN default ELSE value

\* The arguments a caller can pass: max_tokens >= 1 or None (0), and
\* overlap_tokens >= 0 or None (0).
LoopTokens == {<<0, 0>>, <<1, 0>>, <<1, 2>>, <<2, 1>>, <<2, 2>>, <<3, 1>>, <<3, 2>>}

LoopInputs == {[text |-> t, max_tokens |-> s[1], overlap_tokens |-> s[2]] :
                  t \in Texts, s \in LoopTokens}

\* Lines 19 to 46: the short text is returned at once, any other enters the
\* loop with chunk_start = 0 and no chunks.
ChunkEnter ==
    /\ Pending("chunk_document")
    /\ LET max_tokens     == OrDefault(eval.args.max_tokens, Settings.max_chunk_tokens)
           overlap_tokens == OrDefault(eval.args.overlap_tokens, Settings.chunk_overlap_tokens)
       IN  eval' =
             IF estimate_tokens(eval.args.text) <= max_tokens
             THEN Applied(chunk_document(eval.args.text, max_tokens, overlap_tokens))
             ELSE [eval EXCEPT !.op = "loop",
                       !.result = [chunks |-> <<>>, chunk_start |-> 0,
                                   max_chars     |-> max_tokens * CharsPerToken,
                                   overlap_chars |-> overlap_tokens * CharsPerToken]]
    /\ UNCHANGED <<project, documents, blobs, req, run, nextDoc, ai, requirements, responses, calls>>

\* Lines 48 to 76: one pass of the loop, and the return when it is left.
ChunkPass ==
    /\ eval.op = "loop"
    /\ Len(eval.result.chunks) < MaxChunks
    /\ eval.result.chunk_start >= -MaxBack
    /\ LET at   == eval.result
           pass == ChunkIteration(eval.args.text, at.chunk_start, at.chunks,
                                  at.max_chars, at.overlap_chars)
       IN  eval' =
             IF pass.left \/ ~(pass.chunk_start < Len(eval.args.text))
             THEN Applied(pass.chunks)
             ELSE [eval EXCEPT !.result.chunks = pass.chunks,
                               !.result.chunk_start = pass.chunk_start]
    /\ UNCHANGED <<project, documents, blobs, req, run, nextDoc, ai, requirements, responses, calls>>

\* ------------------------------------------------------ compliance scores
\* responses/compliance_scorer.py.  Weights are kept in tenths and scores in
\* tenths of a point, so that the arithmetic is exact: 1000 is the score 100.0.

NoWeight == -1

ComplianceStatuses ==
    {"fully_compliant", "configurable", "partially_compliant", "custom_dev",
     "not_applicable"}

\* A table where not_applicable weighs nothing instead of being left out.
StatusWeightCountsAll(status) ==
    CASE status = "fully_compliant"     -> 10
      [] status = "configurable"        -> 8
      [] status = "partially_compliant" -> 5
      [] status = "custom_dev"          -> 3
      [] OTHER                          -> 0

\* status_weights.get(status)
StatusWeight(status) ==
    CASE status = "fully_compliant"     -> 10
      [] status = "configurable"        -> 8
      [] status = "partially_compliant" -> 5
      [] status = "custom_dev"          -> 3
      [] OTHER                          -> NoWeight

\* resp_by_req.get(req_id): the last response of the list for the requirement.
HasResponse(resps, id) == \E i \in 1..Len(resps) : resps[i].requirement_id = id

RespByReq(resps, id) ==
    resps[SetMax({i \in 1..Len(resps) : resps[i].requirement_id = id})]

\* The weights appended for the requirements of the types given, in the order
\* of the requirements.
RECURSIVE ScoredWeights(_, _, _)
ScoredWeights(reqs, resps, types) ==
    IF reqs = <<>> THEN <<>>
    ELSE LET r    == Head(reqs)
             rest == ScoredWeights(Tail(reqs), resps, types)
         IN  IF r.type \in types /\ HasResponse(resps, r.id)
                /\ StatusWeight(RespByReq(resps, r.id).compliance_status) # NoWeight
             THEN <<StatusWeight(RespByReq(resps, r.id).compliance_status)>> \o rest
             ELSE rest

RECURSIVE SumSeq(_)
SumSeq(s) == IF s = <<>> THEN 0 ELSE Head(s) + SumSeq(Tail(s))

\* round(x, 1) of x = num / den tenths: the nearest tenth, a tie going to the
\* even one.
Round1(num, den) ==
    LET q == num \div den
        r == num % den
    IN  IF 2 * r < den THEN q
        ELSE IF 2 * r > den THEN q + 1
        ELSE IF q % 2 = 0 THEN q ELSE q + 1

\* sum(weights) / len(weights) * 100, rounded; 0 for no weights.
MeanScore(weights) ==
    IF weights = <<>> THEN 0 ELSE Round1(100 * SumSeq(weights), Len(weights))

RequirementTypes == {"functional", "non_functional"}

calculate_compliance_scores(reqs, resps) ==
    IF resps = <<>>
    THEN [overall_score |-> 0, functional_score |-> 0, non_functional_score |-> 0]
    ELSE [overall_score        |-> MeanScore(ScoredWeights(reqs, resps, RequirementTypes)),
          functional_score     |-> MeanScore(ScoredWeights(reqs, resps, {"functional"})),
          non_functional_score |-> MeanScore(ScoredWeights(reqs, resps, {"non_functional"})),
          total_requirements   |-> Len(reqs),
          total_responses      |-> Len(resps)]

\* The requirement and response lists list_responses builds: up to MaxScored
\* requirements, each with no response or with one of any status, and possibly
\* a response whose requirement is not in the list.
ResponseChoices == ComplianceStatuses \cup {"none"}

ResponseList(choice, orphan) ==
    LET answered == SelectSeq(SeqOfSet(DOMAIN choice), LAMBDA k : choice[k] # "none")
    IN  [i \in 1..Len(answered) |->
            [requirement_id |-> answered[i], compliance_status |-> choice[answered[i]]]]
        \o (IF orphan THEN <<[requirement_id |-> 0, compliance_status |-> "fully_compliant"]>>
            ELSE <<>>)

ScoreInput(types, choice, orphan) ==
    [requirements |-> [k \in DOMAIN types |-> [id |-> k, type |-> types[k]]],
     responses    |-> ResponseList(choice, orphan)]

ApplyComplianceScores ==
    /\ Pending("calculate_compliance_scores")
    /\ eval' = Applied(calculate_compliance_scores(eval.args.requirements,
                                                   eval.args.responses))
    /\ UNCHANGED <<project, documents, blobs, req, run, nextDoc, ai, requirements, responses, calls>>

\* ------------------------------------------- deduplication of two orderings
\* _deduplicate_requirements applied to the same records in two orders.  The
\* records are 1..MaxRecords; similar is the set of pairs of records whose
\* cosine similarity exceeds the threshold, a symmetric relation.

Records == 1..MaxRecords

Orderings == {o \in [Records -> Records] : \A a, b \in Records : o[a] = o[b] => a = b}

SimilarityRelations == SUBSET {pr \in SUBSET Records : Cardinality(pr) = 2}

\* The pairs of list positions i < j the inner loop finds similar.
SimilarPositions(order, similar) ==
    {pr \in PairsOf(Len(order)) : {order[pr[1]], order[pr[2]]} \in similar}

ApplyDeduplicate ==
    /\ Pending("_deduplicate_requirements")
    /\ eval' = Applied(
           [first  |-> DeduplicateRequirements(eval.args.first, TRUE,
                           SimilarPositions(eval.args.first, eval.args.similar)),
            second |-> DeduplicateRequirements(eval.args.second, TRUE,
                           SimilarPositions(eval.args.second, eval.args.similar))])
    /\ UNCHANGED <<project, documents, blobs, req, run, nextDoc, ai, requirements, responses, calls>>

\* ---------------------------------------------------------- sheet selection
\* GenerationPipeline._run_excel_answering, step 1.  A sheet name is a
\* sequence of characters, so that lower() and the substring test are
\* computed.

Lower(ch) == CASE ch = "A" -> "a" [] ch = "B" -> "b" [] OTHER -> ch

\* str.lower
LowerName(name) == [i \in 1..Len(name) |-> Lower(name[i])]

\* a in b
IsSubstring(a, b) ==
    \E off \in 0..(Len(b) - Len(a)) : SubSeq(b, off + 1, off + Len(a)) = a

\* A filter that takes a hint only when it is the sheet name itself.
SheetMatchesExact(user_name, actual) == user_name = actual

\* user_lower == actual_lower or user_lower in actual_lower
\*                            or actual_lower in user_lower
SheetMatches(user_name, actual) ==
    LET user_lower   == LowerName(user_name)
        actual_lower == LowerName(actual)
    IN  \/ user_lower = actual_lower
        \/ IsSubstring(user_lower, actual_lower)
        \/ IsSubstring(actual_lower, user_lower)

\* auto_detected_sheets: the named sheets of the listing that hold questions.
RECURSIVE AutoDetectedSheets(_)
AutoDetectedSheets(sheets_list) ==
    IF sheets_list = <<>> THEN <<>>
    ELSE LET s == Head(sheets_list)
         IN  (IF s.question_count > 0 /\ s.name # <<>> THEN <<s.name>> ELSE <<>>)
                 \o AutoDetectedSheets(Tail(sheets_list))

\* matched: the auto-detected sheets some hint matches, in listing order.
RECURSIVE MatchedSheets(_, _)
MatchedSheets(auto, user_specified_sheets) ==
    IF auto = <<>> THEN <<>>
    ELSE (IF \E i \in 1..Len(user_specified_sheets) :
                 SheetMatches(user_specified_sheets[i], Head(auto))
          THEN <<Head(auto)>> ELSE <<>>)
             \o MatchedSheets(Tail(auto), user_specified_sheets)

\* target_sheets; no sheet at all when nothing was auto-detected, and then
\* the method returns without extracting.
TargetSheets(sheets_list, user_specified_sheets) ==
    LET auto    == AutoDetectedSheets(sheets_list)
        matched == MatchedSheets(auto, user_specified_sheets)
    IN  IF auto = <<>> THEN <<>>
        ELSE IF user_specified_sheets # <<>> /\ matched # <<>> THEN matched
        ELSE auto

SheetNames == {<<"A", "b">>, <<"a">>, <<"b", "b">>, <<>>}

HintNames == {<<"a", "B">>, <<"A">>, <<"a", "b", "a">>, <<"c">>}

SheetEntries == [name : SheetNames, question_count : {0, 3}]

ApplyTargetSheets ==
    /\ Pending("target_sheets")
    /\ eval' = Applied(TargetSheets(eval.args.sheets_list, eval.args.sheet_names))
    /\ UNCHANGED <<project, documents, blobs, req, run, nextDoc, ai, requirements, responses, calls>>

\* ------------------------------------------------- one batch of questions
\* GenerationPipeline._generate_answers_batch, lines 565-592.  The text the
\* LLM returns is a sequence of tokens: a code fence, the word json, blanks
\* and newlines, and a body that is a JSON array ("[answer]", "[1]", "[]"),
\* a JSON object ("{}") or no JSON at all ("oops").

\* A code fence: three backquotes.
FenceToken == "fence"

\* str.strip on tokens
StripTokens(text) ==
    LET solid == {i \in 1..Len(text) : ~IsSpace(text[i])}
    IN  IF solid = {} THEN <<>> ELSE SubSeq(text, SetMin(solid), SetMax(solid))

RECURSIVE DropSpace(_)
DropSpace(text) ==
    IF text # <<>> /\ IsSpace(Head(text)) THEN DropSpace(Tail(text)) ELSE text

\* The first re.sub, on a text that starts with a fence: the fence, the word
\* json if it follows, and the whitespace after them go.
StripLeadingFence(text) ==
    LET rest == Tail(text)
    IN  DropSpace(IF rest # <<>> /\ Head(rest) = "json" THEN Tail(rest) ELSE rest)

\* The second re.sub: a fence at the very end goes, with the newline before
\* it.
StripTrailingFence(text) ==
    LET closing == {i \in 1..Len(text) :
                       /\ text[i] = FenceToken
                       /\ \A j \in (i + 1)..Len(text) : IsSpace(text[j])}
    IN  IF closing = {} THEN text
        ELSE LET last == SetMin(closing)
             IN  IF last > 1 /\ text[last - 1] = "\n"
                 THEN SubSeq(text, 1, last - 2)
                 ELSE SubSeq(text, 1, last - 1)

\* cleaned
CleanedReply(response_text) ==
    LET cleaned == StripTokens(response_text)
    IN  IF cleaned # <<>> /\ Head(cleaned) = FenceToken
        THEN StripTrailingFence(StripLeadingFence(cleaned))
        ELSE cleaned

\* json.loads(cleaned) and what the caller makes of it: the reply as
\* GenerateAnswersBatch takes it.
JsonLoads(cleaned) ==
    LET body == StripTokens(cleaned)
    IN  IF body = <<"[answer]">> THEN [kind |-> "json_array", items |-> <<"answer">>]
        ELSE IF body = <<"[1]">> THEN [kind |-> "json_array", items |-> <<"scalar">>]
        ELSE IF body = <<"[]">> THEN [kind |-> "json_array", items |-> <<>>]
        ELSE IF body = <<"{}">> THEN [kind |-> "json_object", items |-> <<>>]
        ELSE [kind |-> "invalid_json", items |-> <<>>]

\* The texts ai_client.generate returns.
ReplyTexts ==
    {<<"[answer]">>,
     <<"[1]">>,
     <<"[]">>,
     <<FenceToken, "json", "\n", "[answer]", "\n", FenceToken>>,
     <<" ", FenceToken, "\n", "[answer]", "\n", FenceToken, "\n">>,
     <<FenceToken, "json", "\n", "[answer]">>,
     <<"oops">>,
     <<>>,
     <<FenceToken, "json", "\n", "oops", "\n", FenceToken>>,
     <<"oops", "\n", FenceToken, "json", "\n", "[answer]", "\n", FenceToken>>,
     <<"[answer]", "\n", FenceToken>>,
     <<"{}">>,
     <<FenceToken, "\n", "{}", "\n", FenceToken>>}

\* What the call of ai_client.generate does for one batch: the outcome of the
\* API call, and the text of a response.
BatchOutcomes ==
    {[api |-> o, text |-> <<>>] :
        o \in APIOutcomes \ {"response", "response_no_tool_use"}}
    \cup {[api |-> "response", text |-> t] : t \in ReplyTexts}

\* The API calls ai_client.generate makes under its retry decorator when the
\* API keeps answering with the outcome given.
AttemptsMade(method, outcome) ==
    LET result == Body(method, outcome)
    IN  IF result # "return" /\ IsInstance(result, RetryTypes)
        THEN StopAfterAttempt
        ELSE 1

\* The reply of one batch as the try block sees it; "except Exception"
\* takes every exception the call can raise.
ReplyOf(outcome) ==
    IF Body("generate", outcome.api) = "return"
    THEN JsonLoads(CleanedReply(outcome.text))
    ELSE [kind |-> "exception", items |-> <<>>]

Escapes(outcome) ==
    LET result == Body("generate", outcome.api)
    IN  result # "return"
        /\ ~IsInstance(IF IsInstance(result, RetryTypes) THEN "RetryError" ELSE result,
                       {"Exception"})

\* The batch loop of _run_excel_answering, lines 481-487, on the outcomes of
\* its batches.
AnswerBatches(outcomes) ==
    [batch_answers |-> [i \in 1..Len(outcomes) |-> GenerateAnswersBatch(ReplyOf(outcomes[i]))],
     api_calls     |-> [i \in 1..Len(outcomes) |-> AttemptsMade("generate", outcomes[i].api)],
     raised        |-> \E i \in 1..Len(outcomes) : Escapes(outcomes[i]),
     all_answers   |-> AllAnswers([i \in 1..Len(outcomes) |-> ReplyOf(outcomes[i])])]

BatchInputs == [outcomes : UNION {[1..n -> BatchOutcomes] : n \in 1..MaxBatches}]

ApplyAnswerBatches ==
    /\ Pending("_generate_answers_batch")
    /\ eval' = Applied(AnswerBatches(eval.args.outcomes))
    /\ UNCHANGED <<project, documents, blobs, req, run, nextDoc, ai, requirements, responses, calls>>

\* ------------------------------------------------- the message of a failure
\* run(), line 203, on exception texts of any length; a text is a sequence of
\* characters.

MessageLimit == 500

\* "Pipeline failed: "
FailedPrefix ==
    <<"P", "i", "p", "e", "l", "i", "n", "e", " ",
      "f", "a", "i", "l", "e", "d", ":", " ">>

\* f"Pipeline failed: {str(e)[:500]}"
FailedMessage(text) ==
    FailedPrefix \o SubSeq(text, 1, Min(Len(text), MessageLimit))

\* The lengths of the exception texts: none, short, and around the limit.
ErrorLengths ==
    {0, 1, MessageLimit - Len(FailedPrefix), MessageLimit - Len(FailedPrefix) + 1,
     MessageLimit, MessageLimit + 1, 2 * MessageLimit}

ErrorInputs == [text : {[i \in 1..n |-> "e"] : n \in ErrorLengths}]

ApplyFailedMessage ==
    /\ Pending("failed_message")
    /\ eval' = Applied(FailedMessage(eval.args.text))
    /\ UNCHANGED <<project, documents, blobs, req, run, nextDoc, ai, requirements, responses, calls>>

\* ----------------------------------------------------------- ParserFactory
\* documents/parsers/factory.py and base.py.  A file name is a sequence of
\* tokens, "." among them, so that the extension is computed from the name.

NameTokens ==
    {".", "report", "pdf", "PDF", "docx", "Doc", "doc", "xlsx", "xls", "csv",
     "pptx", "ppt", "gsheet", "xyz"}

\* str.lower
LowerToken(t) == CASE t = "PDF" -> "pdf" [] t = "Doc" -> "doc" [] OTHER -> t

RECURSIVE JoinLower(_)
JoinLower(tokens) ==
    IF tokens = <<>> THEN "" ELSE LowerToken(Head(tokens)) \o JoinLower(Tail(tokens))

\* "." + filename.rsplit(".", 1)[-1].lower() if "." in filename else ""
Extension(filename) ==
    LET dots == {i \in 1..Len(filename) : filename[i] = "."}
    IN  IF dots = {} THEN ""
        ELSE "." \o JoinLower(SubSeq(filename, SetMax(dots) + 1, Len(filename)))

\* type_map.get(ext, "unknown")
TypeMap(ext) ==
    CASE ext = ".pdf"    -> "pdf"
      [] ext = ".docx"   -> "docx"
      [] ext = ".doc"    -> "docx"
      [] ext = ".xlsx"   -> "xlsx"
      [] ext = ".xls"    -> "xlsx"
      [] ext = ".csv"    -> "csv"
      [] ext = ".pptx"   -> "pptx"
      [] ext = ".ppt"    -> "pptx"
      [] ext = ".gsheet" -> "gsheet"
      [] OTHER           -> "unknown"

detect_file_type(filename) == TypeMap(Extension(filename))

\* self._parsers, in order
Parsers ==
    <<"PDFParser", "DocxParser", "XlsxParser", "CsvParser", "PptxParser",
      "GoogleSheetParser">>

\* Parsers that take the current formats only.
SupportedExtensionsCurrent(parser) ==
    CASE parser = "PDFParser"         -> <<".pdf">>
      [] parser = "DocxParser"        -> <<".docx">>
      [] parser = "XlsxParser"        -> <<".xlsx">>
      [] parser = "CsvParser"         -> <<".csv">>
      [] parser = "PptxParser"        -> <<".pptx">>
      [] parser = "GoogleSheetParser" -> <<".gsheet">>

\* supported_extensions of each parser
SupportedExtensions(parser) ==
    CASE parser = "PDFParser"         -> <<".pdf">>
      [] parser = "DocxParser"        -> <<".docx", ".doc">>
      [] parser = "XlsxParser"        -> <<".xlsx", ".xls">>
      [] parser = "CsvParser"         -> <<".csv">>
      [] parser = "PptxParser"        -> <<".pptx", ".ppt">>
      [] parser = "GoogleSheetParser" -> <<".gsheet">>

\* BaseParser.can_parse
CanParse(parser, filename) == Extension(filename) \in Range(SupportedExtensions(parser))

\* ParserFactory.supported_formats
SupportedFormats == Flatten([i \in 1..Len(Parsers) |-> SupportedExtensions(Parsers[i])])

\* ParserFactory.get_parser: the first parser that can parse the file, or
\* DocumentParsingError with the supported formats as detail.
get_parser(filename) ==
    LET able == {i \in 1..Len(Parsers) : CanParse(Parsers[i], filename)}
    IN  IF able # {}
        THEN [parser |-> Parsers[SetMin(able)], raised |-> "", detail |-> <<>>]
        ELSE [parser |-> "", raised |-> "DocumentParsingError",
              detail |-> SupportedFormats]

ApplyGetParser ==
    /\ Pending("get_parser")
    /\ eval' = Applied([file_type |-> detect_file_type(eval.args.filename),
                        found     |-> get_parser(eval.args.filename)])
    /\ UNCHANGED <<project, documents, blobs, req, run, nextDoc, ai, requirements, responses, calls>>

\* ------------------------------------------- the answers handed to the writer
\* _run_excel_answering, lines 463 to 502, for one sheet whose questions fit
\* one batch and an LLM reply that is a JSON array of objects.

\* The rows of the questions extracted from the sheet.
AskedRows == {2, 3}

\* The items the reply can hold: a row asked or not, the sheet's name, another
\* name or no sheet_name key (NULL), the response column or another letter.
AnswerItems ==
    [row : AskedRows \cup {9}, sheet_name : {"Sheet1", "Other", NULL},
     response_col_letter : {"D", "A"}]

\* ans.get("sheet_name", "Unknown")
SheetNameOf(ans) == IF ans.sheet_name = NULL THEN "Unknown" ELSE ans.sheet_name

\* answers_by_sheet: the answers grouped by the sheet name each one carries.
AnswersBySheet(all_answers) ==
    [sname \in {SheetNameOf(all_answers[i]) : i \in 1..Len(all_answers)} |->
        SelectSeq(all_answers, LAMBDA ans : SheetNameOf(ans) = sname)]

\* answers_data written to answers.json for --write-answers; nothing is
\* written when there is no answer.
AnswersData(items) ==
    LET all_answers == GenerateAnswersBatch([kind |-> "json_array", items |-> items])
    IN  IF all_answers = <<>>
        THEN [written |-> FALSE, answers |-> <<>>]
        ELSE [written |-> TRUE, answers |-> AnswersBySheet(all_answers)]

ApplyAnswersData ==
    /\ Pending("answers_data")
    /\ eval' = Applied(AnswersData(eval.args.items))
    /\ UNCHANGED <<project, documents, blobs, req, run, nextDoc, ai, requirements, responses, calls>>

\* ------------------------------------------------- generate_responses_batch
\* responses/generator.py.  What happens for one requirement: embed_query
\* raises, the API call raises, the reply has no tool_use block, or the tool
\* input comes back with the compliance status given.

RequirementOutcomes ==
    {"embed_error", "api_error", "no_tool_use", "fully_compliant", "not_applicable"}

FailureText == "Response generation failed. Manual response required."

\* generate_response: the exception it raises ("" for none) and its result.
generate_response(outcome) ==
    IF outcome = "embed_error"
    THEN [raised |-> "AIClientError", result |-> NULL]
    ELSE IF outcome \in {"api_error", "no_tool_use"}
    THEN [raised |-> "ResponseGenerationError", result |-> NULL]
    ELSE [raised |-> "",
          result |-> [requirement_id |-> NULL, compliance_status |-> outcome,
                      response_text |-> "generated", confidence_score |-> 9,
                      is_ai_generated |-> TRUE, notes |-> NULL]]

\* The except branch of the batch with the failure logged and nothing added.
OnFailureSkipped(responses_list, requirement, error) == responses_list

\* The except branch of the batch, lines 150 to 159: the stub is appended.
OnFailure(responses_list, requirement, error) ==
    Append(responses_list,
           [requirement_id |-> requirement.id, compliance_status |-> "custom_dev",
            response_text |-> FailureText, confidence_score |-> 0,
            is_ai_generated |-> TRUE, notes |-> "Error: " \o error])

RECURSIVE BatchFrom(_, _, _)
\* The for loop of generate_responses_batch from the requirements left.
BatchFrom(responses_list, reqs, outcomes) ==
    IF reqs = <<>> THEN responses_list
    ELSE LET requirement == Head(reqs)
             resp        == generate_response(Head(outcomes))
         IN  BatchFrom(IF resp.raised = ""
                       THEN Append(responses_list,
                                   [resp.result EXCEPT !.requirement_id = requirement.id])
                       ELSE OnFailure(responses_list, requirement, resp.raised),
                       Tail(reqs), Tail(outcomes))

generate_responses_batch(reqs, outcomes) == BatchFrom(<<>>, reqs, outcomes)

\* req_dicts: the pending requirements, whose ids are not their positions.
ReqDicts(n) == [k \in 1..n |-> [id |-> 10 * k, req_number |-> k]]

ApplyResponsesBatch ==
    /\ Pending("generate_responses_batch")
    /\ eval' = Applied(generate_responses_batch(eval.args.requirements, eval.args.outcomes))
    /\ UNCHANGED <<project, documents, blobs, req, run, nextDoc, ai, requirements, responses, calls>>

\* ------------------------------------------------ the files of one run
\* _download_documents and the loop over xlsx_files of run(), for a project
\* with several documents.

\* local_path = self.temp_dir / doc.filename
LocalPath(file) == file.filename

\* The temporary directory after the downloads: for each path, the document
\* whose bytes were written to it last.
Workspace(local_files) ==
    [path \in {LocalPath(local_files[i]) : i \in 1..Len(local_files)} |->
        local_files[SetMax({i \in 1..Len(local_files) :
                               LocalPath(local_files[i]) = path})].doc_id]

RECURSIVE AnsweredOutputs(_, _)
\* self.output_files after the loop of lines 175 to 183: one entry for each
\* xlsx file whose write-back left the file Answered_<filename>.
AnsweredOutputs(xlsx_files, written) ==
    IF xlsx_files = <<>> THEN <<>>
    ELSE (IF written[Head(xlsx_files).doc_id]
          THEN <<OutputFile("Answered_" \o Head(xlsx_files).filename, "xlsx")>>
          ELSE <<>>)
         \o AnsweredOutputs(Tail(xlsx_files), written)

RunFiles(names, fetched, written) ==
    LET docs  == {UploadedRow(k, names[k]) : k \in DOMAIN names}
        files == DownloadDocuments(docs, fetched)
    IN  [local_files  |-> files,
         workspace    |-> Workspace(files),
         output_files |-> AnsweredOutputs(SelectByType(files, {"xlsx"}), written)]

ApplyRunFiles ==
    /\ Pending("run_files")
    /\ eval' = Applied(RunFiles(eval.args.names, eval.args.fetched, eval.args.written))
    /\ UNCHANGED <<project, documents, blobs, req, run, nextDoc, ai, requirements, responses, calls>>

\* ------------------------------------------------------- specifications

Init ==
    /\ project = NewProject
    /\ documents = {}
    /\ blobs = {}
    /\ req = [q \in Requests |-> NewRequest]
    /\ run = [r \in Requests |-> IdleRun]
    /\ nextDoc = 0
    /\ ai = AIIdle
    /\ requirements = <<>>
    /\ responses = {}
    /\ calls = [c \in Calls |-> IdleCall]
    /\ eval = NoEval

\* The document endpoints.
DocumentStep ==
    \/ \E name \in FileNames : UploadDocument(name)
    \/ \E d \in documents, storageOk \in BOOLEAN : DeleteDocument(d, storageOk)

\* The other endpoints that touch the project and its documents.
ClientStep ==
    \/ DocumentStep
    \/ \E status \in ClientStatusValues : UpdateProject(status)

GenerateStep ==
    \E q \in Requests : GenRead(q) \/ GenQueryDocs(q) \/ GenCommit(q)

ReplySeqs(n) == [1..Batches(n) -> LLMReplies]

\* One step of one pipeline run; Oks is the set of outcomes a status write
\* can have.
PipelineStep(Oks) ==
    \E r \in Requests, ok \in Oks :
        \/ RunInit(r, ok)
        \/ RunLoad(r, ok)
        \/ \E fetched \in SUBSET {d.id : d \in run[r].docs} :
               RunDownload(r, fetched, ok)
        \/ RunNoFiles(r, ok)
        \/ \E result \in ScheduleResults : RunSchedule(r, result, ok)
        \/ \E scriptOk \in BOOLEAN : RunWinPlan(r, scriptOk, ok)
        \/ \E listed, writeOk \in BOOLEAN, n \in QuestionCounts :
               \E replies \in ReplySeqs(n) : RunExcel(r, listed, n, replies, writeOk, ok)
        \/ \E scriptOk \in BOOLEAN : RunPdf(r, scriptOk, ok)
        \/ RunUploadStatus(r, ok)
        \/ \E failAt \in 0..(Len(run[r].output_files) + 1) : RunUpload(r, failAt)
        \/ RunFinish(r, ok)

Next == ClientStep \/ GenerateStep \/ PipelineStep({TRUE})

Spec == Init /\ [][Next]_vars

NextDbFault == DocumentStep \/ GenerateStep \/ PipelineStep(BOOLEAN)

SpecDbFault == Init /\ [][NextDbFault]_vars

NextAI ==
    \/ \E method \in Methods : AICall(method)
    \/ \E outcome \in APIOutcomes, usage \in Usages : AIAttempt(outcome, usage)
    \/ AIDone

SpecAI == Init /\ [][NextAI]_vars

NextExtract ==
    \/ \E name \in FileNames : UploadDocument(name)
    \/ \E d \in documents, outcome \in {"text", "empty", "failed"} :
           ParseDocument(d, outcome)
    \/ \E inputs \in [{ d.id : d \in { x \in documents :
                                        x.status = "parsed" /\ x.has_text } }
                        -> ExtractionInputs] : TriggerExtraction(inputs)

SpecExtract == Init /\ [][NextExtract]_vars

\* The pipeline with the document endpoints, parse among them; a document is
\* parsed once here, before any other parse has changed its status.
NextReparse ==
    \/ DocumentStep
    \/ \E d \in {x \in documents : x.status \in {"uploaded", "completed"}},
          outcome \in {"text", "empty", "failed"} :
           ParseDocument(d, outcome)
    \/ GenerateStep
    \/ PipelineStep({TRUE})

SpecReparse == Init /\ [][NextReparse]_vars

\* The responses endpoints on a project whose requirements are extracted.
InitResponses ==
    /\ project = NewProject
    /\ documents = {}
    /\ blobs = {}
    /\ req = [q \in Requests |-> NewRequest]
    /\ run = [r \in Requests |-> IdleRun]
    /\ nextDoc = 0
    /\ ai = AIIdle
    /\ requirements = StoredRequirements
    /\ responses = {}
    /\ calls = [c \in Calls |-> IdleCall]
    /\ eval = NoEval

NextResponses ==
    \E c \in Calls :
        \/ GenerateRead(c)
        \/ \E outcomes \in [RequirementIds -> GenerationOutcomes] : GenerateSave(c, outcomes)
        \/ \E id \in ResponseIds(responses) \cup {0}, request \in UpdateRequests :
               UpdateLoad(c, id, request)
        \/ \E user \in UserIds : UpdateFlush(c, user)
        \/ \E id \in ResponseIds(responses) \cup {0} : RegenerateLoad(c, id)
        \/ \E outcome \in GenerationOutcomes : RegenerateFlush(c, outcome)

SpecResponses == InitResponses /\ [][NextResponses]_vars


\* The functions checked on their own, each applied to every input chosen here.
InitFunctions ==
    /\ project = NewProject
    /\ documents = {}
    /\ blobs = {}
    /\ req = [q \in Requests |-> NewRequest]
    /\ run = [r \in Requests |-> IdleRun]
    /\ nextDoc = 0
    /\ ai = AIIdle
    /\ requirements = <<>>
    /\ responses = {}
    /\ calls = [c \in Calls |-> IdleCall]
    /\ \/ \E a \in ChunkInputs : eval = Input("chunk_document", a)
       \/ \E n \in 0..MaxScored :
              \E types \in [1..n -> RequirementTypes], choice \in [1..n -> ResponseChoices],
                 orphan \in BOOLEAN :
                  eval = Input("calculate_compliance_scores", ScoreInput(types, choice, orphan))
       \/ \E first \in Orderings, second \in Orderings, similar \in SimilarityRelations :
              eval = Input("_deduplicate_requirements",
                           [first |-> first, second |-> second, similar |-> similar])
       \/ \E n \in 0..MaxSheets, m \in 0..MaxSheets :
              \E sheets_list \in [1..n -> SheetEntries], sheet_names \in [1..m -> HintNames] :
                  eval = Input("target_sheets",
                               [sheets_list |-> sheets_list, sheet_names |-> sheet_names])
       \/ \E a \in BatchInputs : eval = Input("_generate_answers_batch", a)
       \/ \E a \in ErrorInputs : eval = Input("failed_message", a)
       \/ \E n \in 1..MaxNameTokens :
              \E filename \in [1..n -> NameTokens] :
                  eval = Input("get_parser", [filename |-> filename])
       \/ \E n \in 0..MaxItems :
              \E items \in [1..n -> AnswerItems] :
                  eval = Input("answers_data",
                               [sheet_name |-> "Sheet1", response_col |-> "D",
                                rows |-> AskedRows, items |-> items])
       \/ \E n \in 0..MaxBatchReqs :
              \E outcomes \in [1..n -> RequirementOutcomes] :
                  eval = Input("generate_responses_batch",
                               [requirements |-> ReqDicts(n), outcomes |-> outcomes])
       \/ \E n \in 1..MaxInputDocs :
              \E names \in [1..n -> FileNames], fetched \in SUBSET (1..n),
                 written \in [1..n -> BOOLEAN] :
                  eval = Input("run_files",
                               [names |-> names, fetched |-> fetched, written |-> written])

NextFunctions ==
    \/ ApplyChunkDocument
    \/ ApplyComplianceScores
    \/ ApplyDeduplicate
    \/ ApplyTargetSheets
    \/ ApplyAnswerBatches
    \/ ApplyFailedMessage
    \/ ApplyGetParser
    \/ ApplyAnswersData
    \/ ApplyResponsesBatch
    \/ ApplyRunFiles

SpecFunctions == InitFunctions /\ [][NextFunctions]_vars

\* chunk_document followed pass by pass through its loop.
InitChunkLoop ==
    /\ project = NewProject
    /\ documents = {}
    /\ blobs = {}
    /\ req = [q \in Requests |-> NewRequest]
    /\ run = [r \in Requests |-> IdleRun]
    /\ nextDoc = 0
    /\ ai = AIIdle
    /\ requirements = <<>>
    /\ responses = {}
    /\ calls = [c \in Calls |-> IdleCall]
    /\ \E a \in LoopInputs : eval = Input("chunk_document", a)

NextChunkLoop == ChunkEnter \/ ChunkPass

SpecChunkLoop == InitChunkLoop /\ [][NextChunkLoop]_vars

\* ------------------------------------------------------------ properties
\* The step in which request q leaves position pc.
Leaves(q, pc) == req[q].pc = pc /\ req'[q].pc # pc

\* The step in which run r returns.
Ends(r) == run[r].pc # "done" /\ run'[r].pc = "done"

\* The Document rows and stored objects that came from run r.
RowsOfRun(r) == { d \in documents : d.id \div 100 = r }
BlobsOfRun(r) == { b \in blobs : b \div 100 = r }

\* C1: under every interleaving of generate-full requests at most one
\* pipeline run is active at a time (and while processing_status is
\* 'processing' exactly one run is live).  Two requests that both read the
\* status before either commits refute the first part.
C1_AtMostOneActiveRun == Cardinality(LiveRuns) <= 1

C1_TwoActiveRuns ==
    /\ Cardinality(LiveRuns) = 2
    /\ \A q \in Requests : req[q].resp = 200

\* C2: every run that starts ends with processing_status 'completed' or
\* 'failed', also when a database write fails: the step in which a run
\* returns leaves one of the two in the row.
C2_RunEndsCompletedOrFailed ==
    [][\A r \in Requests :
         Ends(r) => project'.processing_status \in {"completed", "failed"}]_vars

\* C3: processing_status changes only as null -> processing -> (completed |
\* failed) per run: it becomes 'processing' when a request is accepted, it
\* becomes 'completed' or 'failed' from 'processing' when a run returns, and
\* no other operation changes it.
C3_StatusTransitions ==
    [][project'.processing_status # project.processing_status =>
         \/ /\ project'.processing_status = "processing"
            /\ \E q \in Requests : Leaves(q, "checked")
         \/ /\ project.processing_status = "processing"
            /\ project'.processing_status \in {"completed", "failed"}
            /\ \E r \in Requests : Ends(r)]_vars

\* C4: a generate-full request that finds processing_status = 'processing'
\* is refused with 409 "... already in progress ...", starts no run and
\* leaves the three processing_* columns as they were.
C4_RefusedWhileProcessing ==
    [][\A q \in Requests :
         Leaves(q, "new") /\ project.processing_status = "processing" =>
            /\ req'[q] = [pc |-> "done", resp |-> 409, detail |-> ConflictDetail]
            /\ run' = run
            /\ project' = project]_vars

C4_Refused ==
    \E q, a \in Requests :
        /\ req[q].resp = 409
        /\ run[q].pc = "none"
        /\ req[a].resp = 200
        /\ LiveRuns = {a}
        /\ project.processing_status = "processing"

\* C5: a generate-full request on a project without non-generated documents
\* is refused with 400 and starts nothing; a request that passes both checks
\* is accepted and flips the status to 'processing'.
C5_NoDocumentsRefused ==
    [][\A q \in Requests :
         /\ Leaves(q, "read") =>
               IF NonGenerated(documents) = {}
               THEN req'[q].resp = 400 /\ req'[q].pc = "done" /\ run'[q].pc = "none"
               ELSE req'[q].pc = "checked"
         /\ Leaves(q, "checked") =>
               /\ req'[q].resp \in {200, 202}
               /\ project'.processing_status = "processing"
               /\ run'[q].pc = "start"]_vars

ExplicitNoDocuments ==
    {"No documents found in project", "No documents could be downloaded"}

C8_OnlyPublicationFails ==
    [][\A r \in Requests :
         Ends(r) /\ project'.processing_status = "failed" =>
            \/ run[r].pub \in {"upload_failed", "commit_failed"}
            \/ project'.processing_message \in ExplicitNoDocuments]_vars

C8_FailedOnLLMReply ==
    \E r \in Requests :
        /\ run[r].pc = "done"
        /\ run[r].pub = "none"
        /\ project.processing_status = "failed"
        /\ project.processing_message = "Pipeline failed: " \o AttributeErrorText

\* C9: a client call whose API call fails with a rate-limit or connection
\* error is attempted 3 times before the error reaches the caller; with any
\* other API error it is attempted once.
C9_RetriesTransientErrors ==
    ai.pc = "raised" /\ IsInstance(ai.api, {"APIError"}) =>
        ai.attempts = IF IsInstance(ai.api, RetryTypes) THEN StopAfterAttempt ELSE 1

C9_RaisedAfterOneAttempt ==
    /\ ai.pc = "raised"
    /\ ai.api = "RateLimitError"
    /\ ai.attempts = 1
    /\ ai.raised = "AIClientError"

\* C10: after any sequence of extractions the req_number values of the
\* project are, for each type prefix, pairwise distinct and exactly the
\* numbers 1..N of that prefix.
C10_ReqNumbersUniqueDense ==
    \A t \in ReqTypes :
        LET rows == { i \in 1..Len(requirements) :
                        Prefix(requirements[i].type) = Prefix(t) }
        IN  /\ \A i, j \in rows :
                  requirements[i].req_number = requirements[j].req_number => i = j
            /\ { requirements[i].req_number : i \in rows }
                   = { ReqNumber(Prefix(t), k) : k \in 1..Cardinality(rows) }

C10_DuplicateReqNumber ==
    \E i, j \in 1..Len(requirements) :
        /\ i < j
        /\ requirements[i].req_number = requirements[j].req_number


\* C11: whatever calls of the response-generation endpoint are made and however
\* they overlap, no requirement has more than one Response row, so the reviewed
\* responses are never more than the requirements.
C11_AtMostOneResponse ==
    /\ \A k \in RequirementIds :
           Cardinality({row \in responses : row.requirement_id = k}) <= 1
    /\ Cardinality({row \in responses : row.is_reviewed}) <= Len(requirements)

\* Two calls found the same requirement pending; one stored its row and the
\* other one ended with the IntegrityError.
C11_SecondCallRejected ==
    \E c \in Calls :
        /\ calls[c].reply = 500
        /\ calls[c].error = "IntegrityError"
        /\ \A k \in RequirementIds : \E row \in responses : row.requirement_id = k

\* C12: a reviewed response is not marked AI-generated and carries its
\* reviewer and the time of the review.
C12_ReviewedIsNotAIGenerated ==
    \A row \in responses :
        row.is_reviewed =>
            /\ ~row.is_ai_generated
            /\ row.reviewed_by # NULL
            /\ row.reviewed_at # NULL

\* A response that is reviewed and marked AI-generated at once.
C12_ReviewedAndAIGenerated ==
    \E row \in responses : row.is_reviewed /\ row.is_ai_generated

AppliedTo(fn) == eval.op = "applied" /\ eval.fn = fn

\* C13: the intervals [start_char, end_char) of the chunks chunk_document
\* returns for a text cover every offset of the text, whitespace included.
C13_ChunksCoverText ==
    AppliedTo("chunk_document") =>
        \A p \in 0..(Len(eval.args.text) - 1) :
            \E i \in 1..Len(eval.result) :
                eval.result[i].start_char <= p /\ p < eval.result[i].end_char

\* A text split into several chunks with an offset that no chunk covers.
C13_UncoveredOffset ==
    /\ AppliedTo("chunk_document")
    /\ Len(eval.result) >= 2
    /\ \E p \in 0..(Len(eval.args.text) - 1) :
           \A i \in 1..Len(eval.result) :
               ~(eval.result[i].start_char <= p /\ p < eval.result[i].end_char)

\* The requirements of the list that have a response whose status is not
\* not_applicable, and the sum of their weights in tenths.
C14_Scored ==
    {k \in 1..Len(eval.args.requirements) :
        \E i \in 1..Len(eval.args.responses) :
            /\ eval.args.responses[i].requirement_id = k
            /\ eval.args.responses[i].compliance_status # "not_applicable"}

C14_StatusOf(k) ==
    (CHOOSE r \in {eval.args.responses[i] : i \in 1..Len(eval.args.responses)} :
        r.requirement_id = k).compliance_status

C14_Tenths(status) ==
    CASE status = "fully_compliant" -> 10 [] status = "configurable" -> 8
      [] status = "partially_compliant" -> 5 [] status = "custom_dev" -> 3

RECURSIVE C14_Sum(_)
C14_Sum(S) ==
    IF S = {} THEN 0
    ELSE LET k == CHOOSE x \in S : TRUE
         IN  C14_Tenths(C14_StatusOf(k)) + C14_Sum(S \ {k})

\* C14: overall_score is 100 times the mean weight of the scored requirements
\* to the nearest tenth, lies in [0, 100], and is 0 when there is no response
\* or no scored requirement.
C14_OverallScoreIsMean ==
    AppliedTo("calculate_compliance_scores") =>
        LET score == eval.result.overall_score
            n     == Cardinality(C14_Scored)
            exact == 100 * C14_Sum(C14_Scored)
        IN  /\ 0 <= score /\ score <= 1000
            /\ (eval.args.responses = <<>> \/ n = 0) => score = 0
            /\ n > 0 => /\ 2 * (score * n - exact) <= n
                        /\ 2 * (exact - score * n) <= n

\* Scores computed over three requirements of which one is not applicable and
\* one has no response: the mean is taken over the remaining one.
C14_ScoredWithExclusions ==
    /\ AppliedTo("calculate_compliance_scores")
    /\ Len(eval.args.requirements) = 3
    /\ Cardinality(C14_Scored) = 1
    /\ \E i \in 1..Len(eval.args.responses) :
           eval.args.responses[i].compliance_status = "not_applicable"
    /\ eval.result.overall_score = 500

\* C15: two orderings of the same records, deduplicated under the same
\* similarity relation, keep the same records.
C15_DedupOrderStable ==
    AppliedTo("_deduplicate_requirements") =>
        Range(eval.result.first) = Range(eval.result.second)

\* Two orderings of the same records of which one keeps more records than the
\* other.
C15_KeptCountsDiffer ==
    /\ AppliedTo("_deduplicate_requirements")
    /\ Len(eval.result.first) # Len(eval.result.second)

\* The place of a status in uploaded -> parsing -> parsed -> extracted ->
\* completed.
StatusRank(status) ==
    CASE status = "uploaded"  -> 1
      [] status = "parsing"   -> 2
      [] status = "parsed"    -> 3
      [] status = "extracted" -> 4
      [] status = "completed" -> 5
      [] OTHER                -> 0

\* C16: no step takes a document from one status of the chain to an earlier
\* one (steps into and out of failed are left aside).
C16_DocumentStatusMovesForward ==
    [][\A d \in documents : \A e \in documents' :
          (d.id = e.id /\ d.status # "failed" /\ e.status # "failed")
              => StatusRank(e.status) >= StatusRank(d.status)]_vars

\* A document that is parsed although requirements were extracted from it: it
\* was extracted and then parsed again.
C16_ParsedAfterExtracted ==
    \E d \in documents :
        /\ d.status = "parsed"
        /\ \E k \in 1..Len(requirements) : requirements[k].document_id = d.id

\* The sheets of the listing that hold questions, and those of them a hint
\* names up to case or as a substring in either direction.
C17_AutoDetected == Range(AutoDetectedSheets(eval.args.sheets_list))

C17_Hinted ==
    {actual \in C17_AutoDetected :
        \E h \in Range(eval.args.sheet_names) :
            \/ LowerName(h) = LowerName(actual)
            \/ IsSubstring(LowerName(h), LowerName(actual))
            \/ IsSubstring(LowerName(actual), LowerName(h))}

\* C17: when sheets with questions were found, the sheets chosen are a
\* non-empty subset of them: the hinted ones if there are any, else all.
C17_TargetSheetsChosen ==
    (AppliedTo("target_sheets") /\ C17_AutoDetected # {}) =>
        /\ Range(eval.result) # {}
        /\ Range(eval.result) \subseteq C17_AutoDetected
        /\ C17_Hinted # {} => Range(eval.result) = C17_Hinted
        /\ C17_Hinted = {} => Range(eval.result) = C17_AutoDetected

\* Two sheets with questions and a hint that names one of them in another
\* case: only that sheet is chosen.
C17_HintNarrowsSheets ==
    /\ AppliedTo("target_sheets")
    /\ Cardinality(C17_AutoDetected) = 2
    /\ eval.args.sheet_names = <<<<"a", "B">>>>
    /\ eval.result = <<<<"A", "b">>>>

\* The texts that are not a JSON array once a leading and a trailing code
\* fence are taken off, and the batches that fail.
C18_FailingTexts ==
    {<<"oops">>,
     <<>>,
     <<FenceToken, "json", "\n", "oops", "\n", FenceToken>>,
     <<"oops", "\n", FenceToken, "json", "\n", "[answer]", "\n", FenceToken>>,
     <<"[answer]", "\n", FenceToken>>,
     <<"{}">>,
     <<FenceToken, "\n", "{}", "\n", FenceToken>>}

C18_Fails(o) == o.api # "response" \/ o.text \in C18_FailingTexts

C18_Expected(o) ==
    IF C18_Fails(o) THEN <<>>
    ELSE IF "[answer]" \in Range(o.text) THEN <<"answer">>
    ELSE IF "[1]" \in Range(o.text) THEN <<"scalar">>
    ELSE <<>>

\* C18: a batch whose LLM call raises, or returns text that is not a JSON
\* array, gives no answers, raises nothing and costs one API call; the answers
\* of the other batches are all kept.
C18_FailedBatchGivesNoAnswers ==
    AppliedTo("_generate_answers_batch") =>
        /\ ~eval.result.raised
        /\ \A i \in 1..Len(eval.args.outcomes) :
               C18_Fails(eval.args.outcomes[i]) =>
                   /\ eval.result.batch_answers[i] = <<>>
                   /\ eval.result.api_calls[i] = 1
        /\ eval.result.all_answers =
               Flatten([i \in 1..Len(eval.args.outcomes) |-> C18_Expected(eval.args.outcomes[i])])

\* Two batches: the call of the first is rate-limited, the second returns a
\* fenced JSON array, whose answer is kept.
C18_SecondBatchKept ==
    /\ AppliedTo("_generate_answers_batch")
    /\ Len(eval.args.outcomes) = 2
    /\ eval.args.outcomes[1].api = "RateLimitError"
    /\ eval.args.outcomes[2].text = <<FenceToken, "json", "\n", "[answer]", "\n", FenceToken>>
    /\ eval.result.all_answers = <<"answer">>

\* C19: the message written for a failed run has at most 500 characters,
\* however long the text of the exception is.
C19_FailedMessageWithinLimit ==
    AppliedTo("failed_message") => Len(eval.result) <= MessageLimit

\* The message of an exception whose text is longer than the limit: the
\* prefix and 500 characters of the text.
C19_MessageOverLimit ==
    /\ AppliedTo("failed_message")
    /\ Len(eval.args.text) > MessageLimit
    /\ Len(eval.result) = MessageLimit + Len(FailedPrefix)

\* The extensions the parsers declare, all of them.
C20_AllExtensions ==
    {".pdf", ".docx", ".doc", ".xlsx", ".xls", ".csv", ".pptx", ".ppt", ".gsheet"}

\* C20: get_parser raises DocumentParsingError, with the supported extensions
\* as detail, exactly for the names detect_file_type calls unknown; for every
\* other name it returns a parser that declares the name's extension.
C20_ParserForEveryKnownType ==
    AppliedTo("get_parser") =>
        /\ (eval.result.found.raised = "DocumentParsingError")
               <=> (eval.result.file_type = "unknown")
        /\ eval.result.found.raised # "" =>
               Range(eval.result.found.detail) = C20_AllExtensions
        /\ eval.result.found.raised = "" =>
               Extension(eval.args.filename)
                   \in Range(SupportedExtensions(eval.result.found.parser))

\* A name with an upper-case legacy extension after a second dot: the type is
\* docx and the parser is the DocxParser.
C20_LegacyUpperCaseName ==
    /\ AppliedTo("get_parser")
    /\ eval.args.filename = <<"pdf", ".", "Doc">>
    /\ eval.result.file_type = "docx"
    /\ eval.result.found.parser = "DocxParser"

\* C21: a text whose estimated token count is at most max_tokens, the empty
\* text included, comes back as one chunk holding the text untrimmed, with
\* start_char 0, end_char len(text) and chunk_index 0; in every result
\* chunk_index is the position of the chunk in the list.
C21_ShortTextSingleChunk ==
    AppliedTo("chunk_document") =>
        /\ estimate_tokens(eval.args.text) <= eval.args.max_tokens =>
               eval.result = <<[text |-> eval.args.text, start_char |-> 0,
                                end_char |-> Len(eval.args.text), chunk_index |-> 0]>>
        /\ \A i \in 1..Len(eval.result) : eval.result[i].chunk_index = i - 1

\* A short text that begins with blanks and is returned with them.
C21_UntrimmedSingleChunk ==
    /\ AppliedTo("chunk_document")
    /\ estimate_tokens(eval.args.text) <= eval.args.max_tokens
    /\ Strip(eval.args.text) # <<>>
    /\ Strip(eval.args.text) # eval.args.text
    /\ Len(eval.result) = 1
    /\ eval.result[1].text = eval.args.text

\* C22: every chunk chunk_document returns, for any text, the empty and the
\* whitespace-only text included, has a text that is non-empty once trimmed.
C22_ChunksNonEmptyTrimmed ==
    AppliedTo("chunk_document") =>
        \A i \in 1..Len(eval.result) : Strip(eval.result[i].text) # <<>>

\* A text of blanks only returned as a chunk.
C22_BlankChunk ==
    /\ AppliedTo("chunk_document")
    /\ eval.args.text # <<>>
    /\ Len(eval.result) = 1
    /\ eval.result[1].text = eval.args.text
    /\ Strip(eval.result[1].text) = <<>>

\* ceil(len(text) / 4)
C26_Ceiling(text) == (Len(text) + CharsPerToken - 1) \div CharsPerToken

C26_WholeText ==
    <<[text |-> eval.args.text, start_char |-> 0,
       end_char |-> Len(eval.args.text), chunk_index |-> 0]>>

\* C26: the token estimate is the ceiling of len(text)/4: the text comes back
\* as the single whole chunk exactly when that ceiling is at most max_tokens,
\* so a text of more than max_tokens*4 characters is split.
C26_SingleChunkIffCeiling ==
    AppliedTo("chunk_document") =>
        (eval.result = C26_WholeText <=> C26_Ceiling(eval.args.text) <= eval.args.max_tokens)

\* A text of more than max_tokens*4 characters returned whole.
C26_LongTextNotSplit ==
    /\ AppliedTo("chunk_document")
    /\ Len(eval.args.text) > eval.args.max_tokens * CharsPerToken
    /\ eval.result = C26_WholeText

\* C25: chunk_document terminates for every text, max_tokens >= 1 and
\* overlap_tokens >= 0: from each pass of the loop to the next the cursor
\* chunk_start strictly advances and is never negative.
C25_CursorAdvances ==
    [][(eval.op = "loop" /\ eval'.op = "loop") =>
           /\ eval'.result.chunk_start > eval.result.chunk_start
           /\ eval'.result.chunk_start >= 0]_vars

\* The loop about to start a pass with a negative cursor.
C25_NegativeCursor ==
    /\ eval.op = "loop"
    /\ eval.args.max_tokens >= 1
    /\ eval.result.chunk_start < 0

\* The run has rendered Win_Plan.docx.
C23_WinPlanRendered(r) ==
    \E i \in 1..Len(run[r].output_files) : run[r].output_files[i].filename = "Win_Plan.docx"

\* C23: the Win-Plan stage runs, and Win_Plan.docx is produced, only in a run
\* whose schedule extraction returned at least one event.
C23_WinPlanOnlyWithEvents ==
    \A r \in Requests :
        (run[r].workspace = "live" /\ (run[r].pc = "winplan" \/ C23_WinPlanRendered(r)))
            => run[r].schedule_json = "Events"

\* A run whose extraction returned an object with no events and that has
\* rendered the Win-Plan.
C23_WinPlanWithoutEvents ==
    \E r \in Requests :
        /\ run[r].workspace = "live"
        /\ run[r].schedule_json = "NoEvents"
        /\ C23_WinPlanRendered(r)

\* C24: every answer record handed to the spreadsheet writer targets the
\* response column detected for its sheet, carries the name of the sheet that
\* was asked, and the row of a question of the batch.
C24_AnswersTargetAskedCells ==
    AppliedTo("answers_data") =>
        \A sname \in DOMAIN eval.result.answers :
            \A i \in 1..Len(eval.result.answers[sname]) :
                LET ans == eval.result.answers[sname][i]
                IN  /\ sname = eval.args.sheet_name
                    /\ ans.response_col_letter = eval.args.response_col
                    /\ ans.row \in eval.args.rows

\* An answer for a row that was asked, in the sheet that was asked, handed to
\* the writer with another column letter.
C24_OtherColumnForwarded ==
    /\ AppliedTo("answers_data")
    /\ eval.result.written
    /\ eval.args.sheet_name \in DOMAIN eval.result.answers
    /\ \E i \in 1..Len(eval.result.answers[eval.args.sheet_name]) :
           LET ans == eval.result.answers[eval.args.sheet_name][i]
           IN  ans.row \in eval.args.rows /\ ans.response_col_letter # eval.args.response_col

C27_Failed(outcome) == outcome \in {"embed_error", "api_error", "no_tool_use"}

\* C27: generate_responses_batch returns one record per requirement, in the
\* order of the requirements, each with the id of its requirement; a
\* requirement whose generation raised gets the stub (custom_dev, confidence
\* 0, the fixed text) and the requirements after it are still processed.
C27_OneRecordPerRequirement ==
    AppliedTo("generate_responses_batch") =>
        /\ Len(eval.result) = Len(eval.args.requirements)
        /\ \A i \in 1..Len(eval.result) :
               /\ eval.result[i].requirement_id = eval.args.requirements[i].id
               /\ IF C27_Failed(eval.args.outcomes[i])
                  THEN /\ eval.result[i].compliance_status = "custom_dev"
                       /\ eval.result[i].confidence_score = 0
                       /\ eval.result[i].response_text = FailureText
                  ELSE eval.result[i].compliance_status = eval.args.outcomes[i]

\* A batch whose first requirement failed and whose second was generated.
C27_GeneratedAfterFailure ==
    /\ AppliedTo("generate_responses_batch")
    /\ Len(eval.args.requirements) >= 2
    /\ C27_Failed(eval.args.outcomes[1])
    /\ eval.result[1].compliance_status = "custom_dev"
    /\ eval.result[2].compliance_status = "fully_compliant"
    /\ eval.result[2].requirement_id = eval.args.requirements[2].id

\* The Document rows the publication step created: their ids are GenId values.
C28_Published(docs) == {d \in docs : d.id >= GenId(1, 1)}

\* C28: a Document created by the publication step keeps the category
\* generated_output and is never among the input documents of a pipeline run.
C28_OutputsNeverInputs ==
    /\ \A d \in C28_Published(documents) : d.doc_category = "generated_output"
    /\ \A r \in Requests : C28_Published(run[r].docs) = {}

\* A run that has loaded, as input, a Document an earlier run published.
C28_OutputLoadedAsInput ==
    \E r \in Requests :
        /\ run[r].pc = "download"
        /\ \E d \in run[r].docs : d.id >= GenId(1, 1) /\ d.status = "parsed"

\* C29: in one run every downloaded document has a local file of its own,
\* which holds that document, and no output file is registered twice.
C29_DistinctLocalFiles ==
    AppliedTo("run_files") =>
        /\ \A i \in 1..Len(eval.result.local_files) :
               eval.result.workspace[LocalPath(eval.result.local_files[i])]
                   = eval.result.local_files[i].doc_id
        /\ \A i, j \in 1..Len(eval.result.output_files) :
               i # j => eval.result.output_files[i] # eval.result.output_files[j]

\* Two workbooks of the same name downloaded to one path and answered twice
\* into one output file.
C29_SameNameOverwritten ==
    /\ AppliedTo("run_files")
    /\ Len(eval.result.local_files) = 2
    /\ eval.result.workspace[LocalPath(eval.result.local_files[1])]
           # eval.result.local_files[1].doc_id
    /\ Len(eval.result.output_files) = 2
    /\ eval.result.output_files[1] = eval.result.output_files[2]

\* C30: when the publication step of a run ends, with success or failure,
\* every object it stored under generated/ is the key of exactly one Document
\* row, and no two rows share a key.
C30_EveryObjectHasItsRow ==
    [][\A r \in Requests :
         (run[r].pc = "uploading" /\ run'[r].pc # "uploading") =>
             /\ \A b \in blobs' \ blobs :
                    Cardinality({d \in documents' : d.id = b}) = 1
             /\ \A d1, d2 \in documents' : d1.id = d2.id => d1 = d2]_vars

\* A publication whose commit failed after every object had been stored: the
\* objects are there and no row refers to them.
C30_ObjectsWithoutRows ==
    \E r \in Requests :
        /\ run[r].pc = "finish"
        /\ run[r].pub = "commit_failed"
        /\ BlobsOfRun(r) # {}
        /\ \A b \in BlobsOfRun(r) : \A d \in documents : d.id # b

=============================================================================
